---- MODULE Spec2Model ----
(***************************************************************************)
(* Veridat: Swedish VAT reconciliation engine.                             *)
(*                                                                         *)
(*   - the identifier validators of .skills/svensk-ekonomi/scripts/        *)
(*     validators.py (SwedishValidators),                                  *)
(*   - the VAT processor of python-api/app/svensk_ekonomi/vat_processor.py *)
(*     (SwedishValidators embedded there, VATProcessor).                   *)
(*   - the SIE exporter of .skills/svensk-ekonomi/scripts/sie_export.py,   *)
(*   - the settings of python-api/app/config.py and the startup of main.py,*)
(*   - the two VAT endpoints of python-api/app/api/routes/vat.py with      *)
(*     services/vat_service.py, core/security.py and models/response.py.   *)
(*                                                                         *)
(* A Python str is a sequence of one-character strings.  The character     *)
(* "U+0663" stands for ARABIC-INDIC DIGIT THREE, a decimal digit for the   *)
(* regular-expression class \d that is not one of 0-9.                     *)
(* Money is carried in hundredths (ore): Decimal("125.00") is 12500.       *)
(* A VAT percent is carried in hundredths of a percent: 12.5 is 1250.      *)
(***************************************************************************)
EXTENDS Integers, Sequences, FiniteSets, TLC

VARIABLES
    value,        \* the input of the call: a string, the settings, a request
    called,       \* the operation that ran ("none" before the call)
    vresult,      \* what it returned
    df,           \* engine: the transaction rows handed to process_transactions
    org_number,   \* engine: the org_number argument
    pc,           \* engine: "ready" before the call, "done" after it
    report,       \* engine: the VATReport object of the call
    returned,     \* engine: the dict process_transactions returned
    exporter,     \* SIE: the SIEExporter object
    history,      \* SIE: the calls made on the exporter so far, constructor first
    content,      \* SIE: the contents exported so far, one per export
    calls         \* concurrent engine: the invocations in progress

vars == <<value, called, vresult, df, org_number, pc, report, returned,
          exporter, history, content, calls>>

validatorVars == <<value, called, vresult>>
engineVars == <<df, org_number, pc, report, returned>>
sieVars == <<exporter, history, content>>

(***************************************************************************)
(* Python built-ins on strings                                             *)
(***************************************************************************)
AsciiDigits == {"0", "1", "2", "3", "4", "5", "6", "7", "8", "9"}

\* int(d) for a one-character string of 0-9
DigitVal(c) ==
    CASE c = "0" -> 0 [] c = "1" -> 1 [] c = "2" -> 2 [] c = "3" -> 3
      [] c = "4" -> 4 [] c = "5" -> 5 [] c = "6" -> 6 [] c = "7" -> 7
      [] c = "8" -> 8 [] c = "9" -> 9

\* re.sub(r'[^0-9]', '', s): every character that is not 0-9 is removed
RECURSIVE StripNonDigits(_)
StripNonDigits(s) ==
    IF s = <<>> THEN <<>>
    ELSE IF Head(s) \in AsciiDigits
         THEN <<Head(s)>> \o StripNonDigits(Tail(s))
         ELSE StripNonDigits(Tail(s))

\* str.upper() on the characters of the model's alphabet
UpperChar(c) == CASE c = "s" -> "S" [] c = "e" -> "E" [] OTHER -> c

Upper(s) == [i \in 1..Len(s) |-> UpperChar(s[i])]

Whitespace == {" ", "\n"}

\* str.strip(): leading and trailing whitespace removed
RECURSIVE LStrip(_)
LStrip(s) ==
    IF s # <<>> /\ Head(s) \in Whitespace THEN LStrip(Tail(s)) ELSE s

RECURSIVE RStrip(_)
RStrip(s) ==
    IF s # <<>> /\ s[Len(s)] \in Whitespace
    THEN RStrip(SubSeq(s, 1, Len(s) - 1))
    ELSE s

Strip(s) == RStrip(LStrip(s))

\* str.startswith
StartsWith(s, p) == Len(s) >= Len(p) /\ SubSeq(s, 1, Len(p)) = p

\* reversed(seq)
Reversed(s) == [i \in 1..Len(s) |-> s[Len(s) + 1 - i]]

\* int() of a string of 0-9
RECURSIVE IntOf(_)
IntOf(s) ==
    IF s = <<>> THEN 0
    ELSE 10 * IntOf(SubSeq(s, 1, Len(s) - 1)) + DigitVal(s[Len(s)])

\* [int(d) for d in clean]
DigitList(clean) == [i \in 1..Len(clean) |-> DigitVal(clean[i])]

(***************************************************************************)
(* validators.py: SwedishValidators                                        *)
(***************************************************************************)
ValidationResult(ok, msg, fld, val) ==
    [is_valid |-> ok, message |-> msg, field |-> fld, value |-> val]

\* The checksum loop shared by every validator:
\*   for i, d in enumerate(seq): doubled (minus 9 from 10 on) at even i,
\*   d itself at odd i.  i is 0-based, seq[i + 1] is the 1-based element.
RECURSIVE LuhnLoop_no_fold(_, _, _)
LuhnLoop_no_fold(seq, i, checksum) ==
    IF i >= Len(seq) THEN checksum
    ELSE LET d == seq[i + 1]
             doubled == d * 2
         IN  IF i % 2 = 0
             THEN LuhnLoop_no_fold(seq, i + 1, checksum + doubled)
             ELSE LuhnLoop_no_fold(seq, i + 1, checksum + d)

RECURSIVE LuhnLoop(_, _, _)
LuhnLoop(seq, i, checksum) ==
    IF i >= Len(seq) THEN checksum
    ELSE LET d == seq[i + 1]
             doubled == d * 2
         IN  IF i % 2 = 0
             THEN LuhnLoop(seq, i + 1,
                           checksum + (IF doubled < 10 THEN doubled ELSE doubled - 9))
             ELSE LuhnLoop(seq, i + 1, checksum + d)

ExpectedCheck(checksum) == (10 - (checksum % 10)) % 10

validate_org_number_any_first_digit(org_nr) ==
    LET clean == StripNonDigits(org_nr)
        digits == DigitList(clean)
        checksum == LuhnLoop(SubSeq(digits, 1, 9), 0, 0)
    IN  IF Len(clean) # 10
        THEN ValidationResult(FALSE, <<"Organisationsnummer maste vara 10 siffror">>,
                              "org_number", org_nr)
        ELSE IF digits[10] # ExpectedCheck(checksum)
        THEN ValidationResult(FALSE, <<"Ogiltig kontrollsiffra">>, "org_number", org_nr)
        ELSE ValidationResult(TRUE, <<"Giltigt organisationsnummer">>,
                              "org_number", org_nr)

validate_org_number(org_nr) ==
    LET clean == StripNonDigits(org_nr)
        digits == DigitList(clean)
        checksum == LuhnLoop(SubSeq(digits, 1, 9), 0, 0)
        expected_check == ExpectedCheck(checksum)
    IN  IF Len(clean) # 10
        THEN ValidationResult(FALSE, <<"Organisationsnummer maste vara 10 siffror">>,
                              "org_number", org_nr)
        ELSE IF clean[1] = "0"
        THEN ValidationResult(FALSE, <<"Organisationsnummer kan inte borja med 0">>,
                              "org_number", org_nr)
        ELSE IF digits[10] # expected_check
        THEN ValidationResult(FALSE,
                              <<"Ogiltig kontrollsiffra", expected_check, digits[10]>>,
                              "org_number", org_nr)
        ELSE ValidationResult(TRUE, <<"Giltigt organisationsnummer">>,
                              "org_number", org_nr)

validate_vat_number_no_suffix_check(vat_nr) ==
    LET upper == Strip(Upper(vat_nr))
        digits == StripNonDigits(vat_nr)
        org_result == validate_org_number(SubSeq(digits, 1, 10))
    IN  IF vat_nr = <<>>
        THEN ValidationResult(FALSE, <<"VAT-nummer saknas">>, "vat_number", vat_nr)
        ELSE IF ~StartsWith(upper, <<"S", "E">>)
        THEN ValidationResult(FALSE, <<"Svenskt VAT-nummer maste borja med SE">>,
                              "vat_number", vat_nr)
        ELSE IF Len(digits) # 12
        THEN ValidationResult(FALSE, <<"VAT-nummer maste ha 12 siffror efter SE">>,
                              "vat_number", vat_nr)
        ELSE IF ~org_result.is_valid
        THEN ValidationResult(FALSE, <<"Ogiltigt organisationsnummer i VAT">>,
                              "vat_number", vat_nr)
        ELSE ValidationResult(TRUE, <<"Giltigt VAT-nummer">>, "vat_number", vat_nr)

validate_vat_number(vat_nr) ==
    LET upper == Strip(Upper(vat_nr))
        digits == StripNonDigits(vat_nr)
        org_result == validate_org_number(SubSeq(digits, 1, 10))
    IN  IF vat_nr = <<>>
        THEN ValidationResult(FALSE, <<"VAT-nummer saknas">>, "vat_number", vat_nr)
        ELSE IF ~StartsWith(upper, <<"S", "E">>)
        THEN ValidationResult(FALSE, <<"Svenskt VAT-nummer maste borja med SE">>,
                              "vat_number", vat_nr)
        ELSE IF Len(digits) # 12
        THEN ValidationResult(FALSE,
                              <<"VAT-nummer maste ha 12 siffror efter SE", Len(digits)>>,
                              "vat_number", vat_nr)
        ELSE IF ~org_result.is_valid
        THEN ValidationResult(FALSE,
                              <<"Ogiltigt organisationsnummer i VAT">> \o org_result.message,
                              "vat_number", vat_nr)
        ELSE IF SubSeq(digits, 11, 12) # <<"0", "1">>
        THEN ValidationResult(FALSE,
                              <<"VAT-nummer ska sluta med 01">> \o SubSeq(digits, 11, 12),
                              "vat_number", vat_nr)
        ELSE ValidationResult(TRUE, <<"Giltigt VAT-nummer">>, "vat_number", vat_nr)

validate_bankgiro_forward(bg_nr) ==
    LET clean == StripNonDigits(bg_nr)
        digits == DigitList(clean)
        checksum == LuhnLoop(SubSeq(digits, 1, Len(digits) - 1), 0, 0)
    IN  IF Len(clean) < 7 \/ Len(clean) > 8
        THEN ValidationResult(FALSE, <<"Bankgironummer maste vara 7-8 siffror">>,
                              "bankgiro", bg_nr)
        ELSE IF digits[Len(digits)] # ExpectedCheck(checksum)
        THEN ValidationResult(FALSE, <<"Ogiltig kontrollsiffra for bankgiro">>,
                              "bankgiro", bg_nr)
        ELSE ValidationResult(TRUE, <<"Giltigt bankgironummer">>, "bankgiro", bg_nr)

validate_bankgiro(bg_nr) ==
    LET clean == StripNonDigits(bg_nr)
        digits == DigitList(clean)
        checksum == LuhnLoop(Reversed(SubSeq(digits, 1, Len(digits) - 1)), 0, 0)
        expected_check == ExpectedCheck(checksum)
    IN  IF Len(clean) < 7 \/ Len(clean) > 8
        THEN ValidationResult(FALSE, <<"Bankgironummer maste vara 7-8 siffror">>,
                              "bankgiro", bg_nr)
        ELSE IF digits[Len(digits)] # expected_check
        THEN ValidationResult(FALSE, <<"Ogiltig kontrollsiffra for bankgiro">>,
                              "bankgiro", bg_nr)
        ELSE ValidationResult(TRUE, <<"Giltigt bankgironummer">>, "bankgiro", bg_nr)

validate_plusgiro(pg_nr) ==
    LET clean == StripNonDigits(pg_nr)
        digits == DigitList(clean)
        checksum == LuhnLoop(Reversed(SubSeq(digits, 1, Len(digits) - 1)), 0, 0)
        expected_check == ExpectedCheck(checksum)
    IN  IF Len(clean) < 2 \/ Len(clean) > 8
        THEN ValidationResult(FALSE, <<"Plusgironummer maste vara 2-8 siffror">>,
                              "plusgiro", pg_nr)
        ELSE IF digits[Len(digits)] # expected_check
        THEN ValidationResult(FALSE, <<"Ogiltig kontrollsiffra for plusgiro">>,
                              "plusgiro", pg_nr)
        ELSE ValidationResult(TRUE, <<"Giltigt plusgironummer">>, "plusgiro", pg_nr)

validate_personal_number_calendar(pnr) ==
    LET stripped == StripNonDigits(pnr)
        clean == IF Len(stripped) = 12 THEN SubSeq(stripped, 3, 12) ELSE stripped
        month == IntOf(SubSeq(clean, 3, 4))
        day == IntOf(SubSeq(clean, 5, 6))
        last == CASE month = 2 -> 29
                  [] month \in {4, 6, 9, 11} -> 30
                  [] OTHER -> 31
        digits == DigitList(clean)
        checksum == LuhnLoop(SubSeq(digits, 1, 9), 0, 0)
    IN  IF Len(clean) # 10
        THEN ValidationResult(FALSE, <<"Personnummer maste vara 10 eller 12 siffror">>,
                              "personal_number", pnr)
        ELSE IF month < 1 \/ month > 12
        THEN ValidationResult(FALSE, <<"Ogiltig manad", month>>, "personal_number", pnr)
        ELSE IF day < 1 \/ day > last
        THEN ValidationResult(FALSE, <<"Ogiltig dag", day>>, "personal_number", pnr)
        ELSE IF digits[10] # ExpectedCheck(checksum)
        THEN ValidationResult(FALSE, <<"Ogiltig kontrollsiffra">>, "personal_number", pnr)
        ELSE ValidationResult(TRUE, <<"Giltigt personnummer">>, "personal_number", pnr)

validate_personal_number(pnr) ==
    LET stripped == StripNonDigits(pnr)
        clean == IF Len(stripped) = 12 THEN SubSeq(stripped, 3, 12) ELSE stripped
        month == IntOf(SubSeq(clean, 3, 4))
        day == IntOf(SubSeq(clean, 5, 6))
        digits == DigitList(clean)
        checksum == LuhnLoop(SubSeq(digits, 1, 9), 0, 0)
        expected_check == ExpectedCheck(checksum)
    IN  IF Len(clean) # 10
        THEN ValidationResult(FALSE, <<"Personnummer maste vara 10 eller 12 siffror">>,
                              "personal_number", pnr)
        ELSE IF month < 1 \/ month > 12
        THEN ValidationResult(FALSE, <<"Ogiltig manad", month>>, "personal_number", pnr)
        ELSE IF day < 1 \/ day > 31
        THEN ValidationResult(FALSE, <<"Ogiltig dag", day>>, "personal_number", pnr)
        ELSE IF digits[10] # expected_check
        THEN ValidationResult(FALSE, <<"Ogiltig kontrollsiffra">>, "personal_number", pnr)
        ELSE ValidationResult(TRUE, <<"Giltigt personnummer">>, "personal_number", pnr)

\* The class \d of a str pattern: every Unicode decimal digit
ReDigits == AsciiDigits \cup {"U+0663"}

\* re.match(r'^[1-8]\d{3}$', account): ^ anchors at the start; $ matches at the
\* end of the string and also just before a newline that ends the string.
MatchBasAccount(account) ==
    /\ \/ Len(account) = 4
       \/ Len(account) = 5 /\ account[5] = "\n"
    /\ account[1] \in {"1", "2", "3", "4", "5", "6", "7", "8"}
    /\ \A i \in 2..4 : account[i] \in ReDigits

class_names ==
    [c \in 1..8 |->
        CASE c = 1 -> "Tillgangar"
          [] c = 2 -> "Eget kapital och skulder"
          [] c = 3 -> "Intakter"
          [] c = 4 -> "Kostnader for varor/material"
          [] c = 5 -> "Ovriga externa kostnader"
          [] c = 6 -> "Ovriga externa kostnader"
          [] c = 7 -> "Personalkostnader"
          [] c = 8 -> "Finansiella poster"]

validate_bas_account(account) ==
    IF ~MatchBasAccount(account)
    THEN ValidationResult(FALSE, <<"Ogiltigt BAS-konto", account>>, "bas_account", account)
    ELSE LET account_class == DigitVal(account[1])
         IN  ValidationResult(TRUE, <<"Giltigt BAS-konto", class_names[account_class]>>,
                              "bas_account", account)

(***************************************************************************)
(* vat_processor.py: decimal arithmetic                                    *)
(***************************************************************************)
Abs(x) == IF x < 0 THEN -x ELSE x

\* Decimal.quantize(Decimal("0.01"), rounding=ROUND_HALF_UP) of num/den
\* hundredths: to the nearest hundredth, a tie away from zero.
QuantizeHalfUp(num, den) ==
    IF num >= 0 THEN (2 * num + den) \div (2 * den)
    ELSE -((2 * (-num) + den) \div (2 * den))

\* int(rate_percent): truncation toward zero (rate in hundredths of a percent)
IntTrunc(rate) == IF rate >= 0 THEN rate \div 100 ELSE -((-rate) \div 100)

(***************************************************************************)
(* validators.py: the amount validators and TransactionValidator           *)
(***************************************************************************)
\* format(x, ".2f") of num/den hundredths: the Decimal context's rounding,
\* to the nearest hundredth, a tie to the even one
FormatHundredths(num, den) ==
    LET a == Abs(num)
        q == a \div den
        r == a % den
        m == IF 2 * r > den \/ (2 * r = den /\ q % 2 = 1) THEN q + 1 ELSE q
    IN  IF num >= 0 THEN m ELSE -m

ValidatorsTolerance == 5

\* net, vat and tolerance in hundredths, rate_percent a whole percent;
\* expected_vat = net * rate is kept exact (in hundredths of a hundredth)
validate_vat_calculation(net, vat, rate_percent, tolerance) ==
    LET expected_vat == net * rate_percent
        diff == Abs(100 * vat - expected_vat)
    IN  IF diff > 100 * tolerance
        THEN ValidationResult(FALSE,
                 <<"Moms stammer inte", vat, rate_percent, net,
                   FormatHundredths(expected_vat, 100), FormatHundredths(diff, 100)>>,
                 "vat_calculation", [none |-> TRUE])
        ELSE ValidationResult(TRUE, <<"Momsberakning OK">>, "vat_calculation",
                              [none |-> TRUE])

validate_gross_amount(net, vat, gross, tolerance) ==
    LET expected_gross == net + vat
        diff == Abs(gross - expected_gross)
    IN  IF diff > tolerance
        THEN ValidationResult(FALSE,
                 <<"Bruttobelopp stammer inte", gross, net, vat, expected_gross>>,
                 "gross_amount", [none |-> TRUE])
        ELSE ValidationResult(TRUE, <<"Bruttobelopp OK">>, "gross_amount",
                              [none |-> TRUE])

\* "for field in required: if field not in transaction: results.append(...)"
RECURSIVE MissingFieldResults(_, _)
MissingFieldResults(required, transaction) ==
    IF required = <<>> THEN <<>>
    ELSE (IF Head(required) \in transaction.missing
          THEN <<ValidationResult(FALSE, <<"Falt saknas", Head(required)>>,
                                  Head(required), [none |-> TRUE])>>
          ELSE <<>>)
         \o MissingFieldResults(Tail(required), transaction)

\* transaction.missing holds the keys the dict does not have; kwh is in kWh
validate_ev_charging_transaction(transaction) ==
    LET results == MissingFieldResults(<<"amount", "subAmount", "vat", "vatRate">>,
                                       transaction)
        net == transaction.subAmount
        vat == transaction.vat
        gross == transaction.amount
        rate == IntTrunc(transaction.vatRate)
    IN  IF results # <<>> THEN results
        ELSE <<validate_vat_calculation(Abs(net), Abs(vat), rate, ValidatorsTolerance),
               validate_gross_amount(Abs(net), Abs(vat), Abs(gross), ValidatorsTolerance)>>
             \o (IF "kwh" \notin transaction.missing /\ transaction.kwh # 0
                 THEN IF transaction.kwh < 0
                      THEN <<ValidationResult(FALSE, <<"kWh kan inte vara negativt">>,
                                              "kwh", [none |-> TRUE])>>
                      ELSE IF transaction.kwh > 500
                      THEN <<ValidationResult(FALSE,
                                 <<"Osannolikt hogt kWh-varde", transaction.kwh>>,
                                 "kwh", [none |-> TRUE])>>
                      ELSE <<>>
                 ELSE <<>>)

(***************************************************************************)
(* vat_processor.py: VATRate, ValidationError, VATReport                   *)
(***************************************************************************)
VATRate == {"STANDARD", "REDUCED_12", "REDUCED_6", "ZERO"}

\* VATRate.value, as a percent
RateValue(rate) ==
    CASE rate = "STANDARD" -> 25
      [] rate = "REDUCED_12" -> 12
      [] rate = "REDUCED_6" -> 6
      [] rate = "ZERO" -> 0

ValidationError(fld, msg, sev) == [field |-> fld, message |-> msg, severity |-> sev]

VATReport(org_nr) ==
    [org_number |-> org_nr,
     sales_25 |-> 0, sales_12 |-> 0, sales_6 |-> 0, sales_0 |-> 0,
     outgoing_vat_25 |-> 0, outgoing_vat_12 |-> 0, outgoing_vat_6 |-> 0,
     purchases_25 |-> 0, purchases_12 |-> 0, purchases_0 |-> 0,
     incoming_vat |-> 0,
     total_outgoing_vat |-> 0, net_vat |-> 0,
     validations |-> <<>>, is_valid |-> TRUE,
     journal_entries |-> <<>>]

(***************************************************************************)
(* vat_processor.py: SwedishValidators (the copy embedded in the engine)   *)
(***************************************************************************)
vp_validate_org_number(org_nr) ==
    LET clean == StripNonDigits(org_nr)
        digits == DigitList(clean)
        checksum == LuhnLoop(SubSeq(digits, 1, Len(digits) - 1), 0, 0)
        expected_check == ExpectedCheck(checksum)
    IN  IF Len(clean) # 10
        THEN <<FALSE, <<"Organisationsnummer maste vara 10 siffror">>>>
        ELSE IF digits[Len(digits)] # expected_check
        THEN <<FALSE, <<"Ogiltig kontrollsiffra", expected_check>>>>
        ELSE <<TRUE, <<"OK">>>>

DefaultTolerance == 2

vp_validate_vat_calculation(net, vat, rate, tolerance) ==
    LET expected_vat == QuantizeHalfUp(net * RateValue(rate), 100)
        diff == Abs(vat - expected_vat)
    IN  IF diff > tolerance
        THEN <<FALSE, <<"Momsbelopp stammer inte", vat, RateValue(rate), net, expected_vat>>>>
        ELSE <<TRUE, <<"OK">>>>

vp_validate_gross_amount(net, vat, gross, tolerance) ==
    LET expected_gross == net + vat
        diff == Abs(gross - expected_gross)
    IN  IF diff > tolerance
        THEN <<FALSE, <<"Bruttobelopp stammer inte", gross, net, vat, diff>>>>
        ELSE <<TRUE, <<"OK">>>>

(***************************************************************************)
(* vat_processor.py: VATProcessor                                          *)
(***************************************************************************)
_get_vat_rate(rate_percent) ==
    LET key == IntTrunc(rate_percent)
    IN  CASE key = 25 -> "STANDARD"
          [] key = 12 -> "REDUCED_12"
          [] key = 6 -> "REDUCED_6"
          [] key = 0 -> "ZERO"
          [] OTHER -> "STANDARD"

IncomeRow_assign(st, row) ==
    LET vat_rate == _get_vat_rate(row.vatRate)
        r == st.report
        r2 == CASE vat_rate = "STANDARD" ->
                     [r EXCEPT !.sales_25 = row.subAmount, !.outgoing_vat_25 = row.vat]
                [] vat_rate = "REDUCED_12" ->
                     [r EXCEPT !.sales_12 = row.subAmount, !.outgoing_vat_12 = row.vat]
                [] vat_rate = "REDUCED_6" ->
                     [r EXCEPT !.sales_6 = row.subAmount, !.outgoing_vat_6 = row.vat]
                [] OTHER ->
                     [r EXCEPT !.sales_0 = row.subAmount]
    IN  [report |-> r2, validations |-> st.validations]

IncomeRow_skip_invalid(st, row) ==
    LET vat_rate == _get_vat_rate(row.vatRate)
        calc == vp_validate_vat_calculation(row.subAmount, row.vat, vat_rate,
                                            DefaultTolerance)
        grs == vp_validate_gross_amount(row.subAmount, row.vat, row.amount,
                                        DefaultTolerance)
        r == st.report
    IN  IF vat_rate # "ZERO" /\ ~calc[1]
        THEN [report |-> r,
              validations |-> Append(st.validations,
                  ValidationError(<<"transaction_", row.id>>, calc[2], "warning"))]
        ELSE IF ~grs[1]
        THEN [report |-> r,
              validations |-> Append(st.validations,
                  ValidationError(<<"transaction_", row.id>>, grs[2], "warning"))]
        ELSE [report |->
                 CASE vat_rate = "STANDARD" ->
                        [r EXCEPT !.sales_25 = @ + row.subAmount,
                                  !.outgoing_vat_25 = @ + row.vat]
                   [] vat_rate = "REDUCED_12" ->
                        [r EXCEPT !.sales_12 = @ + row.subAmount,
                                  !.outgoing_vat_12 = @ + row.vat]
                   [] vat_rate = "REDUCED_6" ->
                        [r EXCEPT !.sales_6 = @ + row.subAmount,
                                  !.outgoing_vat_6 = @ + row.vat]
                   [] OTHER -> [r EXCEPT !.sales_0 = @ + row.subAmount],
              validations |-> st.validations]

\* One pass of "for _, row in income.iterrows()".  st is the pair of the
\* report being filled and the validations list.
IncomeRow(st, row) ==
    LET vat_rate == _get_vat_rate(row.vatRate)
        net == row.subAmount
        vat == row.vat
        gross == row.amount
        calc == vp_validate_vat_calculation(net, vat, vat_rate, DefaultTolerance)
        v1 == IF vat_rate # "ZERO" /\ ~calc[1]
              THEN Append(st.validations,
                          ValidationError(<<"transaction_", row.id>>, calc[2], "warning"))
              ELSE st.validations
        grs == vp_validate_gross_amount(net, vat, gross, DefaultTolerance)
        v2 == IF ~grs[1]
              THEN Append(v1, ValidationError(<<"transaction_", row.id>>, grs[2], "warning"))
              ELSE v1
        r == st.report
        r2 == CASE vat_rate = "STANDARD" ->
                     [r EXCEPT !.sales_25 = @ + net, !.outgoing_vat_25 = @ + vat]
                [] vat_rate = "REDUCED_12" ->
                     [r EXCEPT !.sales_12 = @ + net, !.outgoing_vat_12 = @ + vat]
                [] vat_rate = "REDUCED_6" ->
                     [r EXCEPT !.sales_6 = @ + net, !.outgoing_vat_6 = @ + vat]
                [] OTHER ->
                     [r EXCEPT !.sales_0 = @ + net]
    IN  [report |-> r2, validations |-> v2]

CostRow_signed(st, row) ==
    LET vat_rate == _get_vat_rate(row.vatRate)
        r == st.report
    IN  [report |-> IF vat_rate = "STANDARD"
                    THEN [r EXCEPT !.purchases_25 = @ + row.subAmount,
                                   !.incoming_vat = @ + row.vat]
                    ELSE r,
         validations |-> st.validations]

\* One pass of "for _, row in costs.iterrows()"
CostRow(st, row) ==
    LET vat_rate == _get_vat_rate(row.vatRate)
        net == Abs(row.subAmount)
        vat == Abs(row.vat)
        r == st.report
        r2 == CASE vat_rate = "STANDARD" ->
                     [r EXCEPT !.purchases_25 = @ + net, !.incoming_vat = @ + vat]
                [] vat_rate = "REDUCED_12" ->
                     [r EXCEPT !.purchases_12 = @ + net, !.incoming_vat = @ + vat]
                [] vat_rate = "ZERO" ->
                     [r EXCEPT !.purchases_0 = @ + net]
                [] OTHER -> r
    IN  [report |-> r2, validations |-> st.validations]

RECURSIVE IncomeLoop(_, _)
IncomeLoop(st, rows) ==
    IF rows = <<>> THEN st ELSE IncomeLoop(IncomeRow(st, Head(rows)), Tail(rows))

RECURSIVE CostLoop(_, _)
CostLoop(st, rows) ==
    IF rows = <<>> THEN st ELSE CostLoop(CostRow(st, Head(rows)), Tail(rows))

\* A cell the caller left empty reaches the engine as NaN: row.missing names
\* the columns of the row that hold NaN (their record fields are then unread).
IsNaN(row, column) == column \in row.missing

IsIncome_with_zero(row) == ~IsNaN(row, "amount") /\ row.amount >= 0
IsCost_with_zero(row) == ~IsNaN(row, "amount") /\ row.amount <= 0

\* df[df['amount'] > 0] and df[df['amount'] < 0]: the rows kept in their order
\* (NaN > 0 and NaN < 0 are both false)
IsIncome(row) == ~IsNaN(row, "amount") /\ row.amount > 0
IsCost(row) == ~IsNaN(row, "amount") /\ row.amount < 0

\* The income loop raises on a row: int(nan) is a ValueError, and the
\* comparison diff > tolerance of a NaN Decimal is an InvalidOperation.
IncomeRowRaises(row) ==
    \/ IsNaN(row, "vatRate")
    \/ IsNaN(row, "subAmount")
    \/ IsNaN(row, "vat")

\* The cost loop raises on a row: int(nan) is a ValueError.
CostRowRaises(row) == IsNaN(row, "vatRate")

\* The cost loop adds a NaN to a total without raising; the total is compared
\* later (calculated_net - net_vat > 0.01, total_costs > 0, incoming_vat > 0)
\* and that comparison is an InvalidOperation.
CostRowPoisons(row) ==
    /\ ~CostRowRaises(row)
    /\ LET vat_rate == _get_vat_rate(row.vatRate)
       IN  \/ /\ vat_rate \in {"STANDARD", "REDUCED_12"}
              /\ (IsNaN(row, "subAmount") \/ IsNaN(row, "vat"))
           \/ /\ vat_rate = "ZERO"
              /\ IsNaN(row, "subAmount")

\* process_transactions ends in an exception instead of returning
Raises(rows) ==
    \E i \in 1..Len(rows) :
        \/ IsIncome(rows[i]) /\ IncomeRowRaises(rows[i])
        \/ IsCost(rows[i]) /\ (CostRowRaises(rows[i]) \/ CostRowPoisons(rows[i]))

_validate_vat_balance_refund_is_error(rep, validations) ==
    LET calculated_net == rep.total_outgoing_vat - rep.incoming_vat
    IN  IF Abs(calculated_net) - rep.net_vat > 1
        THEN Append(validations,
                    ValidationError(<<"vat_balance">>,
                                    <<"Momsbalans stammer inte", calculated_net, rep.net_vat>>,
                                    "error"))
        ELSE validations

_validate_vat_balance(rep, validations) ==
    LET calculated_net == rep.total_outgoing_vat - rep.incoming_vat
    IN  IF Abs(calculated_net - rep.net_vat) > 1
        THEN Append(validations,
                    ValidationError(<<"vat_balance">>,
                                    <<"Momsbalans stammer inte", calculated_net, rep.net_vat>>,
                                    "error"))
        ELSE validations

JournalEntry(acct, deb, cred) == [account |-> acct, debit |-> deb, credit |-> cred]

_create_journal_entries_costs_first(rep) ==
    LET total_costs == rep.purchases_25 + rep.purchases_12 + rep.purchases_0
    IN  (IF total_costs > 0
         THEN <<JournalEntry("6590", total_costs, 0)>> ELSE <<>>)
        \o (IF rep.incoming_vat > 0
            THEN <<JournalEntry("2641", rep.incoming_vat, 0)>> ELSE <<>>)
        \o (IF rep.sales_25 > 0
            THEN <<JournalEntry("3010", 0, rep.sales_25)>> ELSE <<>>)
        \o (IF rep.sales_0 > 0
            THEN <<JournalEntry("3011", 0, rep.sales_0)>> ELSE <<>>)
        \o (IF rep.outgoing_vat_25 > 0
            THEN <<JournalEntry("2611", 0, rep.outgoing_vat_25)>> ELSE <<>>)

_create_journal_entries(rep) ==
    LET total_costs == rep.purchases_25 + rep.purchases_12 + rep.purchases_0
    IN  (IF rep.sales_25 > 0
         THEN <<JournalEntry("3010", 0, rep.sales_25)>> ELSE <<>>)
        \o (IF rep.sales_0 > 0
            THEN <<JournalEntry("3011", 0, rep.sales_0)>> ELSE <<>>)
        \o (IF rep.outgoing_vat_25 > 0
            THEN <<JournalEntry("2611", 0, rep.outgoing_vat_25)>> ELSE <<>>)
        \o (IF total_costs > 0
            THEN <<JournalEntry("6590", total_costs, 0)>> ELSE <<>>)
        \o (IF rep.incoming_vat > 0
            THEN <<JournalEntry("2641", rep.incoming_vat, 0)>> ELSE <<>>)

IsError_any_severity(v) == v.severity \in {"error", "warning"}
IsError(v) == v.severity = "error"
IsWarning(v) == v.severity = "warning"

_to_dict_signed_refund(rep) ==
    [company |-> [org_number |-> rep.org_number],
     sales |->
        [vat_25_percent |-> [net |-> rep.sales_25, vat |-> rep.outgoing_vat_25],
         vat_12_percent |-> [net |-> rep.sales_12, vat |-> rep.outgoing_vat_12],
         vat_6_percent |-> [net |-> rep.sales_6, vat |-> rep.outgoing_vat_6],
         vat_0_percent |-> [net |-> rep.sales_0],
         total_net |-> rep.sales_25 + rep.sales_12 + rep.sales_6 + rep.sales_0,
         total_outgoing_vat |-> rep.total_outgoing_vat],
     purchases |->
        [vat_25_percent |-> [net |-> rep.purchases_25],
         vat_12_percent |-> [net |-> rep.purchases_12],
         vat_0_percent |-> [net |-> rep.purchases_0],
         total_net |-> rep.purchases_25 + rep.purchases_12 + rep.purchases_0,
         incoming_vat |-> rep.incoming_vat],
     vat_summary |->
        [outgoing_vat |-> rep.total_outgoing_vat,
         incoming_vat |-> rep.incoming_vat,
         net_vat |-> rep.net_vat,
         to_pay |-> IF rep.net_vat > 0 THEN rep.net_vat ELSE 0,
         to_refund |-> IF rep.net_vat < 0 THEN rep.net_vat ELSE 0],
     journal_entries |-> rep.journal_entries,
     validation |->
        [is_valid |-> rep.is_valid,
         errors |-> SelectSeq(rep.validations, IsError),
         warnings |-> SelectSeq(rep.validations, IsWarning)]]

_to_dict(rep) ==
    [company |-> [org_number |-> rep.org_number],
     sales |->
        [vat_25_percent |-> [net |-> rep.sales_25, vat |-> rep.outgoing_vat_25],
         vat_12_percent |-> [net |-> rep.sales_12, vat |-> rep.outgoing_vat_12],
         vat_6_percent |-> [net |-> rep.sales_6, vat |-> rep.outgoing_vat_6],
         vat_0_percent |-> [net |-> rep.sales_0],
         total_net |-> rep.sales_25 + rep.sales_12 + rep.sales_6 + rep.sales_0,
         total_outgoing_vat |-> rep.total_outgoing_vat],
     purchases |->
        [vat_25_percent |-> [net |-> rep.purchases_25],
         vat_12_percent |-> [net |-> rep.purchases_12],
         vat_0_percent |-> [net |-> rep.purchases_0],
         total_net |-> rep.purchases_25 + rep.purchases_12 + rep.purchases_0,
         incoming_vat |-> rep.incoming_vat],
     vat_summary |->
        [outgoing_vat |-> rep.total_outgoing_vat,
         incoming_vat |-> rep.incoming_vat,
         net_vat |-> rep.net_vat,
         to_pay |-> IF rep.net_vat > 0 THEN rep.net_vat ELSE 0,
         to_refund |-> IF rep.net_vat < 0 THEN Abs(rep.net_vat) ELSE 0],
     journal_entries |-> rep.journal_entries,
     validation |->
        [is_valid |-> rep.is_valid,
         errors |-> SelectSeq(rep.validations, IsError),
         warnings |-> SelectSeq(rep.validations, IsWarning)]]

BuildReport_abort_on_invalid_org(rows, org_nr) ==
    LET org == vp_validate_org_number(org_nr)
        st == IncomeLoop([report |-> VATReport(org_nr), validations |-> <<>>],
                         SelectSeq(rows, IsIncome))
        s2 == CostLoop(st, SelectSeq(rows, IsCost))
        total == s2.report.outgoing_vat_25 + s2.report.outgoing_vat_12
                 + s2.report.outgoing_vat_6
        r3 == [s2.report EXCEPT !.total_outgoing_vat = total,
                                !.net_vat = total - s2.report.incoming_vat]
    IN  IF org_nr # <<>> /\ ~org[1]
        THEN [VATReport(org_nr) EXCEPT
                 !.validations = <<ValidationError(<<"org_number">>, org[2], "error")>>,
                 !.is_valid = FALSE]
        ELSE [r3 EXCEPT !.journal_entries = _create_journal_entries(r3),
                        !.validations = s2.validations,
                        !.is_valid = TRUE]

\* The VATReport object as process_transactions leaves it, just before _to_dict
BuildReport(rows, org_nr) ==
    LET org == vp_validate_org_number(org_nr)
        v0 == IF org_nr # <<>> /\ ~org[1]
              THEN <<ValidationError(<<"org_number">>, org[2], "error")>>
              ELSE <<>>
        income == SelectSeq(rows, IsIncome)
        costs == SelectSeq(rows, IsCost)
        s1 == IncomeLoop([report |-> VATReport(org_nr), validations |-> v0], income)
        s2 == CostLoop(s1, costs)
        total == s2.report.outgoing_vat_25 + s2.report.outgoing_vat_12
                 + s2.report.outgoing_vat_6
        r3 == [s2.report EXCEPT !.total_outgoing_vat = total,
                                !.net_vat = total - s2.report.incoming_vat]
        validations == _validate_vat_balance(r3, s2.validations)
    IN  [r3 EXCEPT !.journal_entries = _create_journal_entries(r3),
                   !.validations = validations,
                   !.is_valid = \A i \in 1..Len(validations) : ~IsError(validations[i])]

process_transactions(rows, org_nr) == _to_dict(BuildReport(rows, org_nr))

(***************************************************************************)
(* vat_processor.py: process_transactions, one loop iteration at a time    *)
(*                                                                         *)
(* c.instances[k] is the state of the k-th VATProcessor object, c.inv[p]   *)
(* the p-th invocation: the instance it runs on, its arguments and locals. *)
(***************************************************************************)
\* VATProcessor.__init__
VATProcessor == [validators |-> "SwedishValidators", accounts |-> "BASAccounts"]

Invocation(self, frame, org_nr) ==
    [self |-> self, df |-> frame, org_number |-> org_nr, pc |-> "called",
     income |-> <<>>, costs |-> <<>>,
     st |-> [report |-> VATReport(org_nr), validations |-> <<>>],
     returned |-> [none |-> TRUE]]

\* report = VATReport(...), the org_number check, the two partitions
Begin(c, p) ==
    LET me == c.inv[p]
        org == vp_validate_org_number(me.org_number)
        v0 == IF me.org_number # <<>> /\ ~org[1]
              THEN <<ValidationError(<<"org_number">>, org[2], "error")>>
              ELSE <<>>
    IN  [c EXCEPT !.inv[p] =
            [me EXCEPT !.pc = "loops",
                       !.st = [report |-> VATReport(me.org_number), validations |-> v0],
                       !.income = SelectSeq(me.df, IsIncome),
                       !.costs = SelectSeq(me.df, IsCost)]]

StepIncome_report_on_instance(c, p) ==
    LET row == Head(c.inv[p].income)
    IN  [c EXCEPT !.inv =
            [q \in DOMAIN c.inv |->
                IF q = p
                THEN [c.inv[q] EXCEPT !.st = IncomeRow(@, row), !.income = Tail(@)]
                ELSE IF c.inv[q].self = c.inv[p].self /\ c.inv[q].pc = "loops"
                THEN [c.inv[q] EXCEPT !.st = IncomeRow(@, row)]
                ELSE c.inv[q]]]

\* one pass of the income loop
StepIncome(c, p) ==
    [c EXCEPT !.inv[p] =
        [@ EXCEPT !.st = IncomeRow(@, Head(c.inv[p].income)), !.income = Tail(@)]]

\* one pass of the cost loop
StepCost(c, p) ==
    [c EXCEPT !.inv[p] =
        [@ EXCEPT !.st = CostRow(@, Head(c.inv[p].costs)), !.costs = Tail(@)]]

\* the totals, the balance check, the journal entries, the findings, _to_dict
Finish(c, p) ==
    LET s2 == c.inv[p].st
        total == s2.report.outgoing_vat_25 + s2.report.outgoing_vat_12
                 + s2.report.outgoing_vat_6
        r3 == [s2.report EXCEPT !.total_outgoing_vat = total,
                                !.net_vat = total - s2.report.incoming_vat]
        validations == _validate_vat_balance(r3, s2.validations)
        r4 == [r3 EXCEPT !.journal_entries = _create_journal_entries(r3),
                         !.validations = validations,
                         !.is_valid = \A i \in 1..Len(validations) : ~IsError(validations[i])]
    IN  [c EXCEPT !.inv[p] = [@ EXCEPT !.pc = "done", !.returned = _to_dict(r4)]]

(***************************************************************************)
(* sie_export.py: SIEExporter                                              *)
(*                                                                         *)
(* An amount is [type, h]: its Python type and its value in hundredths.    *)
(* A dict is a function of its keys.  The exported content is the sequence *)
(* of its lines, '\n'.join(lines), a line being the tuple of its fields.   *)
(***************************************************************************)
Amount(type, h) == [type |-> type, h |-> h]

\* debit - credit: int - int is an int, a Decimal operand makes a Decimal
Minus(a, b) ==
    Amount(IF a.type = "int" /\ b.type = "int" THEN "int"
           ELSE IF "Decimal" \in {a.type, b.type} THEN "Decimal"
           ELSE "float",
           a.h - b.h)

DigitChar(n) == CHOOSE c \in AsciiDigits : DigitVal(c) = n

\* str(n) of an int n >= 0
RECURSIVE StrNat(_)
StrNat(n) ==
    IF n < 10 THEN <<DigitChar(n)>>
    ELSE StrNat(n \div 10) \o <<DigitChar(n % 10)>>

\* str(x) of a float x holding h hundredths: the shortest decimal that reads
\* back as x, with at least one decimal
StrFloat(h) ==
    LET a == Abs(h)
        cents == a % 100
    IN  (IF h < 0 THEN <<"-">> ELSE <<>>)
        \o StrNat(a \div 100) \o <<".">>
        \o (IF cents % 10 = 0 THEN <<DigitChar(cents \div 10)>>
            ELSE <<DigitChar(cents \div 10), DigitChar(cents % 10)>>)

_format_amount(amount) ==
    IF amount.type = "Decimal" THEN StrFloat(amount.h)
    ELSE IF amount.type = "float" THEN StrFloat(amount.h)
    ELSE (IF amount.h < 0 THEN <<"-">> ELSE <<>>) \o StrNat(Abs(amount.h) \div 100)

_clean_org_number(org_nr) == StripNonDigits(org_nr)

\* SIEExporter.__init__
SIEExporter(company_name, org_nr) ==
    [company_name |-> company_name,
     org_number |-> _clean_org_number(org_nr),
     fiscal_year_start |-> "0101",
     fiscal_year_end |-> "1231",
     accounts |-> <<>>,
     verifications |-> <<>>,
     account_balances |-> <<>>]

\* d[k] = v
Put(d, k, v) == [x \in (DOMAIN d) \cup {k} |-> IF x = k THEN v ELSE d[x]]

add_account(self, account_number, account_name) ==
    [self EXCEPT !.accounts = Put(@, account_number, account_name)]

add_verification(self, ver_number, ver_date, description, transactions) ==
    [self EXCEPT !.verifications =
        Append(@, [number |-> ver_number, date |-> ver_date,
                   description |-> description, transactions |-> transactions])]

set_opening_balance(self, account, balance) ==
    [self EXCEPT !.account_balances = Put(@, account, balance)]

\* a < b for two str: the first differing character decides, a proper prefix
\* is smaller; digits compare by value, as their code points do
RECURSIVE StrLess(_, _)
StrLess(a, b) ==
    IF b = <<>> THEN FALSE
    ELSE IF a = <<>> THEN TRUE
    ELSE IF Head(a) = Head(b) THEN StrLess(Tail(a), Tail(b))
    ELSE DigitVal(Head(a)) < DigitVal(Head(b))

RECURSIVE SortedKeys_descending(_)
SortedKeys_descending(keys) ==
    IF keys = {} THEN <<>>
    ELSE LET k == CHOOSE x \in keys : \A y \in keys \ {x} : StrLess(y, x)
         IN  <<k>> \o SortedKeys_descending(keys \ {k})

\* the keys of sorted(d.items())
RECURSIVE SortedKeys(_)
SortedKeys(keys) ==
    IF keys = {} THEN <<>>
    ELSE LET k == CHOOSE x \in keys : \A y \in keys \ {x} : StrLess(x, y)
         IN  <<k>> \o SortedKeys(keys \ {k})

\* str.replace('"', "'")
Replace(str, old, new) == [i \in 1..Len(str) |-> IF str[i] = old THEN new ELSE str[i]]

RECURSIVE TransLines_with_zero(_)
TransLines_with_zero(transactions) ==
    IF transactions = <<>> THEN <<>>
    ELSE LET trans == Head(transactions)
             amount == Minus(trans.debit, trans.credit)
         IN  <<<<"#TRANS", trans.account, "{}", _format_amount(amount)>>>>
             \o TransLines_with_zero(Tail(transactions))

\* "for trans in ver['transactions']": a posting without a debit or credit
\* key is one whose debit or credit is the int 0
RECURSIVE TransLines(_)
TransLines(transactions) ==
    IF transactions = <<>> THEN <<>>
    ELSE LET trans == Head(transactions)
             amount == Minus(trans.debit, trans.credit)
         IN  (IF amount.h # 0
              THEN <<<<"#TRANS", trans.account, "{}", _format_amount(amount)>>>>
              ELSE <<>>)
             \o TransLines(Tail(transactions))

RECURSIVE VerLines(_)
VerLines(verifications) ==
    IF verifications = <<>> THEN <<>>
    ELSE LET ver == Head(verifications)
             desc == Replace(ver.description, "\"", "'")
         IN  <<<<"#VER", "", ver.number, ver.date, desc>>, <<"{">>>>
             \o TransLines(ver.transactions)
             \o <<<<"}">>>>
             \o VerLines(Tail(verifications))

\* SIEExporter.export(year), called on the day today (datetime.now())
export(self, year, today) ==
    LET accountKeys == SortedKeys(DOMAIN self.accounts)
        balanceKeys == SortedKeys(DOMAIN self.account_balances)
    IN  <<<<"#FLAGGA", "0">>,
          <<"#FORMAT", "PC8">>,
          <<"#SIETYP", "4">>,
          <<"#PROGRAM", "svensk-ekonomi", "1.0">>,
          <<"#GEN", today>>,
          <<"#FNAMN", self.company_name>>,
          <<"#ORGNR", self.org_number>>,
          <<"#RAR", "0", <<year, self.fiscal_year_start>>, <<year, self.fiscal_year_end>>>>,
          <<"#KPTYP", "BAS2024">>,
          <<>>,
          <<"# Kontoplan">>>>
        \o [i \in 1..Len(accountKeys) |->
               <<"#KONTO", accountKeys[i], self.accounts[accountKeys[i]]>>]
        \o <<<<>>>>
        \o (IF DOMAIN self.account_balances # {}
            THEN <<<<"# Ingaende balanser">>>>
                 \o [i \in 1..Len(balanceKeys) |->
                        <<"#IB", "0", balanceKeys[i],
                          _format_amount(self.account_balances[balanceKeys[i]])>>]
                 \o <<<<>>>>
            ELSE <<>>)
        \o (IF self.verifications # <<>>
            THEN <<<<"# Verifikationer">>>> \o VerLines(self.verifications) \o <<<<>>>>
            ELSE <<>>)

Code(a, b, c, d) == <<a, b, c, d>>

standard_accounts ==
    <<<<Code("1", "5", "1", "0"), "Kundfordringar">>,
      <<Code("2", "4", "4", "0"), "Leverantorsskulder">>,
      <<Code("2", "6", "1", "1"), "Utgaende moms 25%">>,
      <<Code("2", "6", "2", "1"), "Utgaende moms 12%">>,
      <<Code("2", "6", "3", "1"), "Utgaende moms 6%">>,
      <<Code("2", "6", "4", "1"), "Ingaende moms">>,
      <<Code("2", "6", "5", "0"), "Momsredovisning">>,
      <<Code("3", "0", "1", "0"), "Forsaljning tjanster 25%">>,
      <<Code("3", "0", "1", "1"), "Forsaljning tjanster momsfri">>,
      <<Code("3", "0", "1", "2"), "Roaming-intakter">>,
      <<Code("6", "5", "9", "0"), "Ovriga externa tjanster">>,
      <<Code("6", "5", "9", "1"), "Plattformsavgifter">>,
      <<Code("6", "5", "9", "2"), "Abonnemangskostnader">>>>

\* "for account, name in standard_accounts.items(): exporter.add_account(...)"
RECURSIVE AddAccounts(_, _)
AddAccounts(self, items) ==
    IF items = <<>> THEN self
    ELSE AddAccounts(add_account(self, Head(items)[1], Head(items)[2]), Tail(items))

\* a journal entry of the report: the side that is the literal 0 is an int,
\* the other one the float(...) of a bucket
EntryAmount(x) == Amount(IF x = 0 THEN "int" ELSE "float", x)

\* create_sie_from_vat_report(vat_report, year, ver_number): now is the day of
\* the datetime.now() handed to add_verification, today the day of export's
\* datetime.now()
create_sie_from_vat_report(vat_report, year, ver_number, now, today) ==
    LET exporter0 == AddAccounts(SIEExporter(<<>>, vat_report.company.org_number),
                                 standard_accounts)
        transactions ==
            [i \in 1..Len(vat_report.journal_entries) |->
                [account |-> vat_report.journal_entries[i].account,
                 debit |-> EntryAmount(vat_report.journal_entries[i].debit),
                 credit |-> EntryAmount(vat_report.journal_entries[i].credit)]]
        exporter1 == IF Len(transactions) > 0
                     THEN add_verification(exporter0, ver_number, now,
                                           <<"Momsredovisning", "period">>, transactions)
                     ELSE exporter0
    IN  export(exporter1, year, today)

(***************************************************************************)
(* vat_service.py: VATService; routes/vat.py, core/security.py,            *)
(* excel_service.py, models/response.py: the two VAT endpoints             *)
(***************************************************************************)
SalesLine(description, bucket, tax, rate) ==
    IF bucket.net > 0
    THEN <<[description |-> description, net |-> bucket.net, vat |-> tax, rate |-> rate]>>
    ELSE <<>>

\* VATService._transform_to_frontend_format
_transform_to_frontend_format(rep) ==
    LET total_cost_net == rep.purchases.total_net
        total_income == rep.sales.total_net
        total_costs == rep.purchases.total_net
    IN  [type |-> "vat_report",
         company |-> rep.company,
         summary |-> [total_income |-> total_income,
                      total_costs |-> total_costs,
                      result |-> total_income - total_costs],
         sales |->
            SalesLine("Forsaljning 25% moms", rep.sales.vat_25_percent,
                      rep.sales.vat_25_percent.vat, 2500)
            \o SalesLine("Forsaljning 12% moms", rep.sales.vat_12_percent,
                         rep.sales.vat_12_percent.vat, 1200)
            \o SalesLine("Forsaljning 6% moms", rep.sales.vat_6_percent,
                         rep.sales.vat_6_percent.vat, 600)
            \o SalesLine("Forsaljning momsfri (roaming)", rep.sales.vat_0_percent, 0, 0),
         costs |->
            IF total_cost_net > 0
            THEN <<[description |-> "Kostnader 25% moms", net |-> total_cost_net,
                    vat |-> rep.purchases.incoming_vat, rate |-> 2500]>>
            ELSE <<>>,
         vat |-> [outgoing_25 |-> rep.vat_summary.outgoing_vat,
                  outgoing_12 |-> 0,
                  outgoing_6 |-> 0,
                  incoming |-> rep.vat_summary.incoming_vat,
                  net |-> rep.vat_summary.net_vat,
                  to_pay |-> rep.vat_summary.to_pay,
                  to_refund |-> rep.vat_summary.to_refund],
         journal_entries |->
            [i \in 1..Len(rep.journal_entries) |->
                [account |-> rep.journal_entries[i].account,
                 debit |-> rep.journal_entries[i].debit,
                 credit |-> rep.journal_entries[i].credit]],
         validation |-> rep.validation]

\* VATService.process_transactions
VATService_process_transactions(rows, org_nr) ==
    _transform_to_frontend_format(process_transactions(rows, org_nr))

HTTPException(status_code, detail) == [status_code |-> status_code, detail |-> detail]

\* verify_api_key: expected_key is the PYTHON_API_KEY of the environment
verify_api_key(expected_key, api_key) ==
    IF expected_key = "" THEN [raised |-> FALSE, key |-> "bypass"]
    ELSE IF api_key = ""
    THEN [raised |-> TRUE, exception |-> HTTPException(401, "Missing API key")]
    ELSE IF api_key # expected_key
    THEN [raised |-> TRUE, exception |-> HTTPException(401, "Invalid API key")]
    ELSE [raised |-> FALSE, key |-> api_key]

REQUIRED_COLUMNS == {"amount", "subAmount", "vat", "vatRate", "transactionName"}

\* ExcelService.validate_dataframe_structure raises FileProcessingError
StructureRaises(file) ==
    \/ ~(REQUIRED_COLUMNS \subseteq file.columns)
    \/ Len(file.rows) = 0

\* A value pydantic takes for a List[str] field: no element is a dict
IsListOfStr(items) ==
    \A i \in 1..Len(items) :
        ~({"field", "message", "severity"} \subseteq DOMAIN items[i])

\* VATReportResponse(type="vat_report", data=report) raises a ValidationError
ResponseRaises(data) ==
    \/ ~IsListOfStr(data.validation.errors)
    \/ ~IsListOfStr(data.validation.warnings)

VATReportResponse(data) == [status_code |-> 200, type |-> "vat_report", data |-> data]

\* the body shared by the two endpoints once the DataFrame exists
Respond(rows, org_nr, detail) ==
    IF Raises(rows) THEN HTTPException(500, detail)
    ELSE LET data == VATService_process_transactions(rows, org_nr)
         IN  IF ResponseRaises(data) THEN HTTPException(500, detail)
             ELSE VATReportResponse(data)

\* POST /analyze
analyze_excel(request) ==
    LET key == verify_api_key(request.expected_key, request.api_key)
    IN  IF key.raised THEN key.exception
        ELSE IF ~request.file.parses
        THEN HTTPException(400, "Failed to parse Excel file")
        ELSE IF StructureRaises(request.file)
        THEN HTTPException(400, "Missing required columns or no data rows")
        ELSE Respond(request.file.rows, request.org_number, "Internal server error")

\* the DataFrame /calculate-normalized builds from the transactions
NormalizedFrame(transactions) ==
    [i \in 1..Len(transactions) |->
        LET t == transactions[i]
            sign == IF t.type = "sale" THEN 1 ELSE -1
        IN  [id |-> i - 1,
             amount |-> t.amount * sign,
             subAmount |-> t.net_amount * sign,
             vat |-> t.vat_amount * sign,
             vatRate |-> t.vat_rate,
             missing |-> {}]]

\* POST /calculate-normalized
calculate_normalized(request) ==
    LET key == verify_api_key(request.expected_key, request.api_key)
    IN  IF key.raised THEN key.exception
        ELSE IF request.transactions = <<>>
        THEN HTTPException(400, "No transactions provided")
        ELSE Respond(NormalizedFrame(request.transactions), request.org_number,
                     "Calculation error")

(***************************************************************************)
(* config.py: Settings; main.py: lifespan                                  *)
(*                                                                         *)
(* ALLOWED_ORIGINS is a sequence of pieces of text, each a character or a  *)
(* word that holds no comma and no whitespace.                             *)
(***************************************************************************)
\* str.split(","): the pieces between the commas, empty ones included
RECURSIVE SplitFrom(_, _)
SplitFrom(str, piece) ==
    IF str = <<>> THEN <<piece>>
    ELSE IF Head(str) = "," THEN <<piece>> \o SplitFrom(Tail(str), <<>>)
    ELSE SplitFrom(Tail(str), Append(piece, Head(str)))

Split(str) == SplitFrom(str, <<>>)

NonBlank(origin) == Strip(origin) # <<>>

\* Settings.allowed_origins_list
allowed_origins_list(settings) ==
    IF settings.ALLOWED_ORIGINS = <<>> \/ Strip(settings.ALLOWED_ORIGINS) = <<>>
    THEN <<<<"http://", "localhost", ":5173">>>>
    ELSE IF settings.ALLOWED_ORIGINS = <<"*">>
    THEN <<<<"*">>>>
    ELSE LET kept == SelectSeq(Split(settings.ALLOWED_ORIGINS), NonBlank)
         IN  [i \in 1..Len(kept) |-> Strip(kept[i])]

\* "localhost" in origin or "127.0.0.1" in origin
MentionsLocalhost(origin) ==
    \E i \in 1..Len(origin) : origin[i] \in {"localhost", "127.0.0.1"}

Returns == [raised |-> FALSE, error |-> "none"]
RaisesValueError(msg) == [raised |-> TRUE, error |-> msg]

\* Settings.validate_production_config
validate_production_config(settings) ==
    LET origins == allowed_origins_list(settings)
    IN  IF settings.ENV # "production" THEN Returns
        ELSE IF settings.DEBUG THEN RaisesValueError("DEBUG=true is not allowed in production")
        ELSE IF settings.ALLOWED_ORIGINS = <<"*">>
        THEN RaisesValueError("CORS allows all origins (*) in production")
        ELSE IF \E i \in 1..Len(origins) : MentionsLocalhost(origins[i])
        THEN RaisesValueError("localhost origins not allowed in production")
        ELSE Returns

\* lifespan: the startup part re-raises what validate_production_config raises
lifespan(settings) ==
    LET checked == validate_production_config(settings)
    IN  [started |-> ~checked.raised, raised |-> checked.raised, error |-> checked.error]

(***************************************************************************)
(* Inputs of the identifier validators                                     *)
(***************************************************************************)
Subst(s, p, c) == [s EXCEPT ![p] = c]

Hyphenate(s, k) == SubSeq(s, 1, k) \o <<"-">> \o SubSeq(s, k + 1, Len(s))

\* 556677-8899 carries a correct check digit
OrgBase == <<"5", "5", "6", "6", "7", "7", "8", "8", "9", "9">>

\* one digit and the check digit of OrgBase replaced
OrgDigitStrings ==
    {Subst(Subst(OrgBase, p, d), 10, c) :
        p \in 1..9, d \in AsciiDigits, c \in AsciiDigits}

OrgInputs ==
    OrgDigitStrings
    \cup {Hyphenate(s, 6) : s \in OrgDigitStrings}
    \cup {s \o <<"0">> : s \in OrgDigitStrings}
    \cup {Tail(s) : s \in OrgDigitStrings}
    \cup {<<>>, <<"X">>, <<"-">>}

\* 991-2346 and 5991-2345 carry a correct check digit
GiroBase7 == <<"9", "9", "1", "2", "3", "4", "6">>
GiroBase8 == <<"5", "9", "9", "1", "2", "3", "4", "5">>

GiroDigitStrings(base) ==
    {Subst(Subst(base, p, d), Len(base), c) :
        p \in 1..(Len(base) - 1), d \in AsciiDigits, c \in AsciiDigits}

ShortDigitStrings ==
    {<<a>> : a \in AsciiDigits}
    \cup {<<a, b>> : a \in AsciiDigits, b \in AsciiDigits}
    \cup {<<a, b, c>> : a \in AsciiDigits, b \in AsciiDigits, c \in AsciiDigits}

GiroInputs ==
    GiroDigitStrings(GiroBase7)
    \cup GiroDigitStrings(GiroBase8)
    \cup {Hyphenate(s, 3) : s \in GiroDigitStrings(GiroBase7)}
    \cup ShortDigitStrings
    \cup {SubSeq(Subst(GiroBase7, 7, c), k, 7) : c \in AsciiDigits, k \in 2..4}
    \cup {<<d>> \o Subst(GiroBase8, 8, c) : d \in AsciiDigits, c \in AsciiDigits}

Months == {<<"0", "0">>, <<"0", "1">>, <<"0", "2">>, <<"0", "4">>, <<"1", "2">>, <<"1", "3">>}
Days == {<<"0", "0">>, <<"0", "1">>, <<"2", "9">>, <<"3", "0">>, <<"3", "1">>, <<"3", "2">>}

PersonalDigitStrings ==
    {<<"8", "1">> \o m \o d \o <<"9", "8", "7", c>> :
        m \in Months, d \in Days, c \in AsciiDigits}

PersonalInputs ==
    PersonalDigitStrings
    \cup {<<"1", "9">> \o s : s \in PersonalDigitStrings}
    \cup {<<"2", "0">> \o s : s \in PersonalDigitStrings}
    \cup {Hyphenate(s, 6) : s \in PersonalDigitStrings}
    \cup {<<"1", "9">> \o Hyphenate(s, 6) : s \in PersonalDigitStrings}
    \cup {<<"9">> \o s : s \in PersonalDigitStrings}
    \cup {Tail(s) : s \in PersonalDigitStrings}

BasFirst == {"0", "1", "3", "8", "9", "X", "U+0663"}
BasRest == {"0", "9", "X", "U+0663"}
BasPrefix == {<<>>, <<" ">>, <<"\n">>}
BasSuffix == {<<>>, <<"\n">>, <<"0">>, <<" ">>, <<"\n", "\n">>}

BasInputs ==
    {pre \o <<a, b, c, d>> \o suf :
        pre \in BasPrefix, a \in BasFirst, b \in BasRest, c \in BasRest,
        d \in BasRest, suf \in BasSuffix}
    \cup {<<a, b, c>> : a \in BasFirst, b \in BasRest, c \in BasRest}

VatOrgParts ==
    LET ds == {Subst(Subst(OrgBase, 1, d), 10, c) : d \in {"0", "5"}, c \in AsciiDigits}
    IN  ds \cup {Hyphenate(s, 6) : s \in ds}
           \cup {Tail(s) : s \in ds}
           \cup {s \o <<"0">> : s \in ds}

VatPrefix ==
    {<<"S", "E">>, <<"s", "e">>, <<"S", "e">>, <<" ", "S", "E">>, <<"\n", "s", "E">>,
     <<"X", "E">>, <<"E", "S">>, <<"S">>, <<>>}
VatSuffix ==
    {<<"0", "1">>, <<"0", "2">>, <<"1", "0">>, <<"1">>, <<"0", "1", "1">>,
     <<"0", "1", " ">>, <<"-", "0", "1">>, <<"0", "1", "X">>}

VatInputs ==
    {pre \o o \o suf : pre \in VatPrefix, o \in VatOrgParts, suf \in VatSuffix}

ValidatorInputs == OrgInputs \cup GiroInputs \cup PersonalInputs \cup BasInputs \cup VatInputs

(***************************************************************************)
(* Inputs of the engine                                                    *)
(***************************************************************************)
MaxTx == 2

Row(gross, net, v, rate) ==
    [amount |-> gross, subAmount |-> net, vat |-> v, vatRate |-> rate, missing |-> {}]

Rows ==
    {Row(12500, 10000, 2500, 2500),   \* sale at 25%
     Row(-5000, -4000, -1000, 2500),  \* cost at 25%
     Row(25000, 20000, 5000, 2500),
     Row(11200, 10000, 1200, 1200),   \* sale at 12%
     Row(10600, 10000, 600, 600),     \* sale at 6%
     Row(15000, 15000, 0, 0),         \* tax-free sale
     Row(12500, 10000, 2500, 0),      \* VAT charged on a row declared 0%
     Row(12400, 10000, 2400, 2500),   \* VAT is not 25% of net
     Row(12600, 10000, 2500, 2500),   \* gross is not net + VAT
     Row(12502, 10000, 2502, 2500),   \* VAT off by the tolerance
     Row(12503, 10000, 2503, 2500),   \* VAT off by more than the tolerance
     Row(11250, 10000, 1250, 1250),   \* declared 12.5%
     Row(12000, 10000, 2000, 2000),   \* declared 20%
     Row(10025, 10000, 25, 25),       \* declared 0.25%
     Row(12500, 10000, 2500, -600),   \* declared -6%
     Row(0, 10000, 2500, 2500),       \* gross of exactly zero
     Row(-1120, -1000, -120, 1200),   \* cost at 12%
     Row(-1060, -1000, -60, 600),     \* cost at 6%
     Row(-1000, -1000, 0, 0),         \* cost at 0%
     Row(100, -10000, -2500, 2500),   \* positive gross, negative net
     Row(-5000, 4000, 1000, 2500),    \* negative gross, positive net
     Row(13, 10, 3, 2500),            \* 25% of 0.10 is 0.025
     Row(3, 2, 1, 2500)}              \* 25% of 0.02 is 0.005

\* the id column: each row carries its position
WithIds(rows) ==
    [i \in 1..Len(rows) |->
        [id |-> i, amount |-> rows[i].amount, subAmount |-> rows[i].subAmount,
         vat |-> rows[i].vat, vatRate |-> rows[i].vatRate, missing |-> rows[i].missing]]

DataFrames ==
    UNION {{WithIds(rows) : rows \in [1..n -> Rows]} : n \in 0..MaxTx}

RequiredFields == {"amount", "subAmount", "vat", "vatRate", "transactionName"}

\* row with the cell of one column left empty
Without(row, column) ==
    [amount |-> IF column = "amount" THEN 0 ELSE row.amount,
     subAmount |-> IF column = "subAmount" THEN 0 ELSE row.subAmount,
     vat |-> IF column = "vat" THEN 0 ELSE row.vat,
     vatRate |-> IF column = "vatRate" THEN 0 ELSE row.vatRate,
     missing |-> row.missing \cup {column}]

CompleteRows == {Row(12500, 10000, 2500, 2500), Row(-5000, -4000, -1000, 2500)}

MissingRows ==
    {Without(r, c) : r \in CompleteRows \cup {Row(-1060, -1000, -60, 600)},
                     c \in RequiredFields}

\* a row with an empty cell, alone or next to one complete row
MissingDataFrames ==
    {WithIds(<<m>>) : m \in MissingRows}
    \cup {WithIds(<<m, r>>) : m \in MissingRows, r \in CompleteRows}
    \cup {WithIds(<<r, m>>) : m \in MissingRows, r \in CompleteRows}

OrgNumbers ==
    {<<>>,
     OrgBase,
     Hyphenate(OrgBase, 6),
     Subst(OrgBase, 10, "0"),                       \* wrong check digit
     Subst(Subst(OrgBase, 1, "0"), 10, "0"),        \* 0566778890: check digit right
     <<"1", "2", "3">>}

(***************************************************************************)
(* State machines                                                          *)
(***************************************************************************)
None == [none |-> TRUE]

ValidatorsIdle == value = <<>> /\ called = "none" /\ vresult = None
EngineIdle ==
    df = <<>> /\ org_number = <<>> /\ pc = "idle" /\ report = None /\ returned = None

SieIdle == exporter = None /\ history = <<>> /\ content = <<>>

\* One call of one validator on the string drawn at the start
Call(name, res) ==
    /\ called = "none"
    /\ called' = name
    /\ vresult' = res
    /\ UNCHANGED <<value, engineVars, sieVars, calls>>

ValidateOrgNumber == Call("org_number", validate_org_number(value))
ValidateVatNumber == Call("vat_number", validate_vat_number(value))
ValidateBankgiro == Call("bankgiro", validate_bankgiro(value))
ValidatePlusgiro == Call("plusgiro", validate_plusgiro(value))
ValidatePersonalNumber == Call("personal_number", validate_personal_number(value))
ValidateBasAccount == Call("bas_account", validate_bas_account(value))

InitValidators ==
    /\ value \in ValidatorInputs
    /\ called = "none"
    /\ vresult = None
    /\ EngineIdle
    /\ SieIdle
    /\ calls = <<>>

NextValidators ==
    \/ ValidateOrgNumber
    \/ ValidateVatNumber
    \/ ValidateBankgiro
    \/ ValidatePlusgiro
    \/ ValidatePersonalNumber
    \/ ValidateBasAccount

SpecValidators == InitValidators /\ [][NextValidators]_vars

(***************************************************************************)
(* The amount validators, called on their own                              *)
(***************************************************************************)
AmountNets == {0, 10, 30, 50, 10000, -10}
AmountVats == {0, 3, 5, 8, 2500, 2503, -3}
GrossOffsets == {0, 2, 3, 5, 6, -6}
Tolerances == {DefaultTolerance, ValidatorsTolerance}

\* the keys a transaction dict lacks, and its kwh
DictShapes ==
    {[missing |-> {"kwh"}, kwh |-> 0],
     [missing |-> {}, kwh |-> 0],
     [missing |-> {}, kwh |-> 20],
     [missing |-> {}, kwh |-> 500],
     [missing |-> {}, kwh |-> 501],
     [missing |-> {}, kwh |-> -1],
     [missing |-> {"transactionName", "kwh"}, kwh |-> 0],
     [missing |-> {"subAmount", "kwh"}, kwh |-> 0],
     [missing |-> {"amount", "vatRate"}, kwh |-> 20]}

AmountInputs ==
    {[subAmount |-> n, vat |-> v, amount |-> n + v + g, rate |-> r,
      vatRate |-> 100 * RateValue(r), tolerance |-> t,
      missing |-> d.missing, kwh |-> d.kwh] :
        n \in AmountNets, v \in AmountVats, g \in GrossOffsets, r \in VATRate,
        t \in Tolerances, d \in DictShapes}

ValidateVatCalculation ==
    Call("vat_calculation",
         validate_vat_calculation(value.subAmount, value.vat, RateValue(value.rate),
                                  value.tolerance))

VpValidateVatCalculation ==
    Call("vp_vat_calculation",
         vp_validate_vat_calculation(value.subAmount, value.vat, value.rate,
                                     value.tolerance))

ValidateGrossAmount ==
    Call("gross_amount",
         validate_gross_amount(value.subAmount, value.vat, value.amount, value.tolerance))

VpValidateGrossAmount ==
    Call("vp_gross_amount",
         vp_validate_gross_amount(value.subAmount, value.vat, value.amount,
                                  value.tolerance))

ValidateEvChargingTransaction ==
    Call("ev_charging_transaction", validate_ev_charging_transaction(value))

InitAmounts ==
    /\ value \in AmountInputs
    /\ called = "none"
    /\ vresult = None
    /\ EngineIdle
    /\ SieIdle
    /\ calls = <<>>

NextAmounts ==
    \/ ValidateVatCalculation
    \/ VpValidateVatCalculation
    \/ ValidateGrossAmount
    \/ VpValidateGrossAmount
    \/ ValidateEvChargingTransaction

SpecAmounts == InitAmounts /\ [][NextAmounts]_vars


(***************************************************************************)
(* The SIE exporter: calls on one SIEExporter, then export                 *)
(***************************************************************************)
MaxCalls == 3

Year == "2024"
Dates == {"20240131", "20240201"}

SieOrgNumbers == {Hyphenate(OrgBase, 6), OrgBase, <<"5", "5", " ", "X", "1">>}
SieCodes == {Code("3", "0", "1", "0"), Code("1", "5", "1", "0")}
SieNames == {"Forsaljning", "Kundfordringar"}
SieBalances == {Amount("Decimal", 125050), Amount("Decimal", -500)}

Posting(acct, deb, cred) == [account |-> acct, debit |-> deb, credit |-> cred]

SieVerifications ==
    {[number |-> 1, date |-> "20240115", description |-> <<"a", "\"", "b">>,
      transactions |->
         <<Posting("3010", Amount("int", 0), Amount("Decimal", 100000)),
           Posting("2611", Amount("Decimal", 25000), Amount("Decimal", 25000)),
           Posting("1510", Amount("Decimal", 125000), Amount("int", 0))>>],
     [number |-> 2, date |-> "20240116", description |-> <<>>,
      transactions |-> <<>>],
     [number |-> 3, date |-> "20240117", description |-> <<"c">>,
      transactions |->
         <<Posting("1510", Amount("int", 500), Amount("int", 500)),
           Posting("2611", Amount("int", 700), Amount("int", 0)),
           Posting("2611", Amount("Decimal", 5), Amount("Decimal", 12506))>>]}

SieOpen == Len(history) <= MaxCalls /\ content = <<>>

AddAccount ==
    /\ SieOpen
    /\ \E account_number \in SieCodes, account_name \in SieNames :
          /\ exporter' = add_account(exporter, account_number, account_name)
          /\ history' = Append(history, [op |-> "add_account", account |-> account_number,
                                         arg |-> account_name])
    /\ UNCHANGED <<content, validatorVars, engineVars, calls>>

SetOpeningBalance ==
    /\ SieOpen
    /\ \E account \in SieCodes, balance \in SieBalances :
          /\ exporter' = set_opening_balance(exporter, account, balance)
          /\ history' = Append(history, [op |-> "set_opening_balance", account |-> account,
                                         arg |-> balance])
    /\ UNCHANGED <<content, validatorVars, engineVars, calls>>

AddVerification ==
    /\ SieOpen
    /\ \E ver \in SieVerifications :
          /\ exporter' = add_verification(exporter, ver.number, ver.date,
                                          ver.description, ver.transactions)
          /\ history' = Append(history, [op |-> "add_verification", account |-> <<>>,
                                         arg |-> ver])
    /\ UNCHANGED <<content, validatorVars, engineVars, calls>>

Export ==
    /\ content = <<>>
    /\ \E today \in Dates : content' = <<export(exporter, Year, today)>>
    /\ UNCHANGED <<exporter, history, validatorVars, engineVars, calls>>

InitSie ==
    /\ \E org_nr \in SieOrgNumbers :
          /\ exporter = SIEExporter(<<"A", "B">>, org_nr)
          /\ history = <<[op |-> "__init__", account |-> <<>>, arg |-> org_nr]>>
    /\ content = <<>>
    /\ ValidatorsIdle
    /\ EngineIdle
    /\ calls = <<>>

NextSie == AddAccount \/ SetOpeningBalance \/ AddVerification \/ Export

SpecSie == InitSie /\ [][NextSie]_vars

(***************************************************************************)
(* create_sie_from_vat_report, called twice on one report                  *)
(***************************************************************************)
SieReports ==
    {process_transactions(frame, org_nr) :
        frame \in {f \in DataFrames : Len(f) <= 1},
        org_nr \in {<<>>, Hyphenate(OrgBase, 6)}}

CreateSieFromVatReport ==
    /\ Len(content) < 2
    /\ \E now \in Dates, today \in Dates :
          content' = Append(content, create_sie_from_vat_report(returned, Year, 1, now, today))
    /\ UNCHANGED <<exporter, history, validatorVars, df, org_number, pc, report, returned, calls>>

InitSieReport ==
    /\ returned \in SieReports
    /\ df = <<>> /\ org_number = <<>> /\ pc = "idle" /\ report = None
    /\ SieIdle
    /\ ValidatorsIdle
    /\ calls = <<>>

NextSieReport == CreateSieFromVatReport

SpecSieReport == InitSieReport /\ [][NextSieReport]_vars


(***************************************************************************)
(* Startup: the settings are checked once                                  *)
(***************************************************************************)
MaxOriginPieces == 3

OriginPieces == {" ", ",", "*", "localhost", "127.0.0.1", "https://app.veridat.se"}

OriginStrings == UNION {[1..n -> OriginPieces] : n \in 0..MaxOriginPieces}

SettingsInputs ==
    {[ENV |-> e, DEBUG |-> d, ALLOWED_ORIGINS |-> o] :
        e \in {"production", "development", "staging"}, d \in BOOLEAN,
        o \in OriginStrings}

ValidateProductionConfig ==
    Call("validate_production_config", validate_production_config(value))

Lifespan == Call("lifespan", lifespan(value))

InitConfig ==
    /\ value \in SettingsInputs
    /\ called = "none"
    /\ vresult = None
    /\ EngineIdle
    /\ SieIdle
    /\ calls = <<>>

NextConfig == ValidateProductionConfig \/ Lifespan

SpecConfig == InitConfig /\ [][NextConfig]_vars


(***************************************************************************)
(* Requests to the two VAT endpoints                                       *)
(***************************************************************************)
MaxApiTx == 2

NormalizedTransaction(gross, net, tax, rate, type) ==
    [amount |-> gross, net_amount |-> net, vat_amount |-> tax, vat_rate |-> rate,
     type |-> type]

NormalizedTransactions ==
    {NormalizedTransaction(12500, 10000, 2500, 2500, "sale"),
     NormalizedTransaction(5000, 4000, 1000, 2500, "cost"),
     NormalizedTransaction(11200, 10000, 1200, 1200, "sale"),
     NormalizedTransaction(10600, 10000, 600, 600, "sale"),
     NormalizedTransaction(15000, 15000, 0, 0, "sale"),
     NormalizedTransaction(12400, 10000, 2400, 2500, "sale")}  \* VAT is not 25% of net

TransactionLists ==
    UNION {[1..n -> NormalizedTransactions] : n \in 0..MaxApiTx}

ExcelFile(parses, columns, rows) == [parses |-> parses, columns |-> columns, rows |-> rows]

ExcelFiles ==
    {ExcelFile(FALSE, {}, <<>>),
     ExcelFile(TRUE, REQUIRED_COLUMNS \ {"vat"}, WithIds(<<Row(12500, 10000, 2500, 2500)>>))}
    \cup {ExcelFile(TRUE, REQUIRED_COLUMNS \cup {"id"}, NormalizedFrame(ts)) :
            ts \in TransactionLists}
    \cup {ExcelFile(TRUE, REQUIRED_COLUMNS \cup {"id"}, WithIds(<<m>>)) : m \in MissingRows}

ApiOrgNumbers == {<<>>, OrgBase, Subst(OrgBase, 10, "0")}

Requests ==
    {[endpoint |-> "/calculate-normalized", expected_key |-> e, api_key |-> k,
      org_number |-> o, transactions |-> ts, file |-> ExcelFile(FALSE, {}, <<>>)] :
        e \in {"", "secret"}, k \in {"", "secret", "wrong"}, o \in ApiOrgNumbers,
        ts \in TransactionLists}
    \cup
    {[endpoint |-> "/analyze", expected_key |-> e, api_key |-> k,
      org_number |-> o, transactions |-> <<>>, file |-> f] :
        e \in {"", "secret"}, k \in {"", "secret", "wrong"}, o \in ApiOrgNumbers,
        f \in ExcelFiles}

AnalyzeExcel ==
    /\ value.endpoint = "/analyze"
    /\ Call("/analyze", analyze_excel(value))

CalculateNormalized ==
    /\ value.endpoint = "/calculate-normalized"
    /\ Call("/calculate-normalized", calculate_normalized(value))

InitApi ==
    /\ value \in Requests
    /\ called = "none"
    /\ vresult = None
    /\ EngineIdle
    /\ SieIdle
    /\ calls = <<>>

NextApi == AnalyzeExcel \/ CalculateNormalized

SpecApi == InitApi /\ [][NextApi]_vars

(***************************************************************************)
(* Several invocations of process_transactions, interleaved                *)
(***************************************************************************)
Invocations == {1, 2}

ConcurrentFrames ==
    {WithIds(<<Row(12500, 10000, 2500, 2500), Row(-5000, -4000, -1000, 2500)>>),
     WithIds(<<Row(12400, 10000, 2400, 2500), Row(11200, 10000, 1200, 1200)>>),
     WithIds(<<Row(-1120, -1000, -120, 1200), Row(12600, 10000, 2500, 2500)>>),
     WithIds(<<Row(0, 10000, 2500, 2500)>>),
     <<>>}

ConcurrentOrgNumbers == {<<>>, Subst(OrgBase, 10, "0")}

otherVars == <<validatorVars, engineVars, sieVars>>

BeginCall ==
    /\ \E p \in Invocations :
          /\ calls.inv[p].pc = "called"
          /\ calls' = Begin(calls, p)
    /\ UNCHANGED otherVars

IncomeIteration ==
    /\ \E p \in Invocations :
          /\ calls.inv[p].pc = "loops"
          /\ calls.inv[p].income # <<>>
          /\ calls' = StepIncome(calls, p)
    /\ UNCHANGED otherVars

CostIteration ==
    /\ \E p \in Invocations :
          /\ calls.inv[p].pc = "loops"
          /\ calls.inv[p].income = <<>>
          /\ calls.inv[p].costs # <<>>
          /\ calls' = StepCost(calls, p)
    /\ UNCHANGED otherVars

ReturnReport ==
    /\ \E p \in Invocations :
          /\ calls.inv[p].pc = "loops"
          /\ calls.inv[p].income = <<>>
          /\ calls.inv[p].costs = <<>>
          /\ calls' = Finish(calls, p)
    /\ UNCHANGED otherVars

InitConcurrent ==
    /\ \E frames \in [Invocations -> ConcurrentFrames],
          orgs \in [Invocations -> ConcurrentOrgNumbers],
          on \in [Invocations -> {1, 2}] :
          calls = [instances |-> [k \in {1, 2} |-> VATProcessor],
                   inv |-> [p \in Invocations |-> Invocation(on[p], frames[p], orgs[p])]]
    /\ ValidatorsIdle
    /\ EngineIdle
    /\ SieIdle

NextConcurrent == BeginCall \/ IncomeIteration \/ CostIteration \/ ReturnReport

SpecConcurrent == InitConcurrent /\ [][NextConcurrent]_vars


\* One call of VATProcessor.process_transactions
ProcessTransactions ==
    /\ pc = "ready"
    /\ IF Raises(df)
       THEN /\ pc' = "raised"
            /\ UNCHANGED <<report, returned>>
       ELSE /\ report' = BuildReport(df, org_number)
            /\ returned' = process_transactions(df, org_number)
            /\ pc' = "done"
    /\ UNCHANGED <<df, org_number, validatorVars, sieVars, calls>>

Init ==
    /\ df \in DataFrames \cup MissingDataFrames
    /\ org_number \in OrgNumbers
    /\ pc = "ready"
    /\ report = None
    /\ returned = None
    /\ ValidatorsIdle
    /\ SieIdle
    /\ calls = <<>>

Next == ProcessTransactions

Spec == Init /\ [][Next]_vars

(***************************************************************************)
(* Properties                                                              *)
(***************************************************************************)
RECURSIVE SumIdx(_, _)
SumIdx(f, S) ==
    IF S = {} THEN 0
    ELSE LET x == CHOOSE y \in S : TRUE IN f[x] + SumIdx(f, S \ {x})

Done == pc = "done"

TotalDebit(entries) == SumIdx([i \in 1..Len(entries) |-> entries[i].debit], 1..Len(entries))
TotalCredit(entries) == SumIdx([i \in 1..Len(entries) |-> entries[i].credit], 1..Len(entries))

\* C1: the journal entries process_transactions emits balance: the sum of the
\* debit amounts equals the sum of the credit amounts to within 0.01.
C1_JournalBalances ==
    Done => Abs(TotalDebit(returned.journal_entries)
                - TotalCredit(returned.journal_entries)) <= 1

C2_Input ==
    WithIds(<<Row(12500, 10000, 2500, 2500), Row(-5000, -4000, -1000, 2500)>>)

\* C2: the sale 125.00/100.00/25.00 and the cost -50.00/-40.00/-10.00, both at
\* 25% and with no organisation number, give sales_25 net 100.00 VAT 25.00,
\* purchases net 40.00, incoming VAT 10.00, net VAT 15.00 to pay, the four
\* journal entries 3010, 2611, 6590, 2641, no findings and is_valid true.
C2_EndToEnd ==
    (Done /\ df = C2_Input /\ org_number = <<>>) =>
        /\ returned.sales.vat_25_percent = [net |-> 10000, vat |-> 2500]
        /\ returned.purchases.total_net = 4000
        /\ returned.purchases.incoming_vat = 1000
        /\ returned.vat_summary.net_vat = 1500
        /\ returned.vat_summary.to_pay = 1500
        /\ returned.vat_summary.to_refund = 0
        /\ returned.journal_entries =
              <<JournalEntry("3010", 0, 10000), JournalEntry("2611", 0, 2500),
                JournalEntry("6590", 4000, 0), JournalEntry("2641", 1000, 0)>>
        /\ returned.validation.errors = <<>>
        /\ returned.validation.warnings = <<>>
        /\ returned.validation.is_valid

C2_Witness == Done /\ df = C2_Input /\ org_number = <<>>

OrgNumberFails == org_number # <<>> /\ ~vp_validate_org_number(org_number)[1]

OrgErrorRecorded ==
    \E i \in 1..Len(returned.validation.errors) :
        /\ returned.validation.errors[i].field = <<"org_number">>
        /\ returned.validation.errors[i].severity = "error"

\* C3: with an organisation number that fails validation the report is invalid
\* and carries an error finding for the organisation number, and every bucket
\* total, VAT total, net VAT and journal entry is the one the same rows give
\* with no organisation number.
C3_ValidationNeverAlters ==
    (Done /\ OrgNumberFails) =>
        LET plain == process_transactions(df, <<>>)
        IN  /\ ~returned.validation.is_valid
            /\ OrgErrorRecorded
            /\ returned.sales = plain.sales
            /\ returned.purchases = plain.purchases
            /\ returned.vat_summary = plain.vat_summary
            /\ returned.journal_entries = plain.journal_entries

C3_Witness ==
    /\ Done
    /\ OrgNumberFails
    /\ returned.sales.total_net > 0
    /\ returned.purchases.total_net > 0
    /\ returned.journal_entries # <<>>

\* The digit at 0-based index i counted as the checksum counts it: doubled,
\* minus 9 when that reaches 10, at even i; itself at odd i.
LuhnTerm(d, doubledHere) ==
    IF doubledHere THEN (IF 2 * d >= 10 THEN 2 * d - 9 ELSE 2 * d) ELSE d

ForwardSum(c) ==
    SumIdx([i \in 0..8 |-> LuhnTerm(DigitVal(c[i + 1]), i % 2 = 0)], 0..8)

OrgNumberRule(s) ==
    LET c == StripNonDigits(s)
    IN  /\ Len(c) = 10
        /\ c[1] # "0"
        /\ DigitVal(c[10]) = (10 - (ForwardSum(c) % 10)) % 10

\* C4: validate_org_number is valid exactly when the digits of the string are
\* 10, the first is not 0 and the 10th is (10 - (s mod 10)) mod 10 for s the
\* sum over indices 0..8 of the doubled digit (minus 9 from 10 on) at even
\* indices and the digit itself at odd indices.
C4_OrgNumberRule ==
    called = "org_number" => (vresult.is_valid <=> OrgNumberRule(value))

C4_Witness ==
    /\ called = "org_number"
    /\ vresult.is_valid
    /\ \E i \in 1..Len(value) : value[i] = "-"

EndsWith(s, p) == Len(s) >= Len(p) /\ SubSeq(s, Len(s) - Len(p) + 1, Len(s)) = p

\* value is "SE" + orgnr + "01" for the string orgnr between them
IsSeOrg01 ==
    /\ Len(value) >= 4
    /\ StartsWith(value, <<"S", "E">>)
    /\ EndsWith(value, <<"0", "1">>)

OrgPart == SubSeq(value, 3, Len(value) - 2)

VatIffOrg ==
    IsSeOrg01 => (vresult.is_valid <=> validate_org_number(OrgPart).is_valid)

LastTwoDigitsAre01(s) == EndsWith(StripNonDigits(s), <<"0", "1">>)

\* C5 as stated: validate_vat_number("SE" + orgnr + "01") is valid iff orgnr is
\* a valid organisation number; and a VAT number whose last two digits are not
\* 01, whose digit count is not 12 or which does not start with SE
\* (case-insensitive) is invalid.
C5_VatNumberAsStated ==
    called = "vat_number" =>
        /\ VatIffOrg
        /\ (\/ ~LastTwoDigitsAre01(value)
            \/ Len(StripNonDigits(value)) # 12
            \/ ~StartsWith(Upper(value), <<"S", "E">>)) => ~vresult.is_valid

\* C5 amended: validate_vat_number("SE" + orgnr + "01") is valid iff orgnr is a
\* valid organisation number; and a VAT number whose last two digits are not
\* 01, whose digit count is not 12 or which, with the whitespace around it
\* removed, does not start with SE (case-insensitive) is invalid.
C5_VatNumber ==
    called = "vat_number" =>
        /\ VatIffOrg
        /\ (\/ ~LastTwoDigitsAre01(value)
            \/ Len(StripNonDigits(value)) # 12
            \/ ~StartsWith(Upper(Strip(value)), <<"S", "E">>)) => ~vresult.is_valid

C5_Witness ==
    /\ called = "vat_number"
    /\ IsSeOrg01
    /\ vresult.is_valid
    /\ \E i \in 1..Len(OrgPart) : OrgPart[i] = "-"

\* C6: with an organisation number supplied, the engine records an error
\* finding for it exactly when validate_org_number of validators.py rejects it.
C6_EngineAgreesWithValidator ==
    (Done /\ org_number # <<>>) =>
        (OrgErrorRecorded <=> ~validate_org_number(org_number).is_valid)

\* The checksum walked from the digit before the check digit to the left:
\* weight 2 at distance 1, 1 at distance 2, 2 at distance 3, ...
BackwardSum(c) ==
    LET n == Len(c)
    IN  SumIdx([j \in 1..(n - 1) |-> LuhnTerm(DigitVal(c[n - j]), j % 2 = 1)], 1..(n - 1))

GiroRule(s, lo, hi) ==
    LET c == StripNonDigits(s)
    IN  /\ Len(c) >= lo
        /\ Len(c) <= hi
        /\ DigitVal(c[Len(c)]) = (10 - (BackwardSum(c) % 10)) % 10

\* C7: validate_bankgiro accepts exactly the strings of 7 or 8 digits whose
\* last digit is the check digit of the others walked right to left with
\* weights 2,1,2,1,...; validate_plusgiro applies the same checksum to 2 to 8
\* digits; the two agree on every input of 7 or 8 digits.
C7_GiroRule ==
    /\ called = "bankgiro" => (vresult.is_valid <=> GiroRule(value, 7, 8))
    /\ called = "plusgiro" => (vresult.is_valid <=> GiroRule(value, 2, 8))
    /\ (called \in {"bankgiro", "plusgiro"} /\ Len(StripNonDigits(value)) \in {7, 8}) =>
          /\ vresult.is_valid = validate_bankgiro(value).is_valid
          /\ vresult.is_valid = validate_plusgiro(value).is_valid

C7_Witness ==
    /\ called = "bankgiro"
    /\ vresult.is_valid
    /\ Len(StripNonDigits(value)) = 7
    /\ validate_plusgiro(value).is_valid

TwoDigits(c, i) == 10 * DigitVal(c[i]) + DigitVal(c[i + 1])

PersonalNumberRule(s) ==
    LET all == StripNonDigits(s)
        c == IF Len(all) = 12 THEN SubSeq(all, 3, 12) ELSE all
    IN  /\ Len(c) = 10
        /\ TwoDigits(c, 3) \in 1..12
        /\ TwoDigits(c, 5) \in 1..31
        /\ DigitVal(c[10]) = (10 - (ForwardSum(c) % 10)) % 10

\* C8: validate_personal_number accepts exactly the strings whose digits, the
\* two century digits dropped when there are 12, are 10 with month 1..12, day
\* 1..31 and a matching forward check digit; a 12-digit number and its last 10
\* digits have the same validity; no calendar check is made.
C8_PersonalNumberRule ==
    called = "personal_number" =>
        /\ vresult.is_valid <=> PersonalNumberRule(value)
        /\ Len(StripNonDigits(value)) = 12 =>
              vresult.is_valid =
                  validate_personal_number(SubSeq(StripNonDigits(value), 3, 12)).is_valid

\* 31 April of a 12-digit number, accepted
C8_Witness ==
    /\ called = "personal_number"
    /\ vresult.is_valid
    /\ Len(StripNonDigits(value)) = 12
    /\ SubSeq(StripNonDigits(value), 5, 8) = <<"0", "4", "3", "1">>

\* C9: validate_bas_account is valid exactly for the strings of four
\* characters, the first a digit 1..8 and the other three digits 0..9, with
\* nothing before or after (no trailing newline); on success the message names
\* the account class of the first digit.
C9_BasAccountExactlyFour ==
    called = "bas_account" =>
        /\ vresult.is_valid <=>
              /\ Len(value) = 4
              /\ value[1] \in {"1", "2", "3", "4", "5", "6", "7", "8"}
              /\ \A i \in 2..4 : value[i] \in AsciiDigits
        /\ vresult.is_valid =>
              vresult.message = <<"Giltigt BAS-konto", class_names[DigitVal(value[1])]>>

\* the rows of df that are sales resolved to the bucket of rate
SalesOf(rate) ==
    {i \in 1..Len(df) : df[i].amount > 0 /\ _get_vat_rate(df[i].vatRate) = rate}

NetSum(S) == SumIdx([i \in 1..Len(df) |-> df[i].subAmount], S)
VatSum(S) == SumIdx([i \in 1..Len(df) |-> df[i].vat], S)

OutgoingBuckets(rep) ==
    <<rep.sales_25, rep.sales_12, rep.sales_6, rep.sales_0,
      rep.outgoing_vat_25, rep.outgoing_vat_12, rep.outgoing_vat_6>>

Reorderings == {f \in [1..Len(df) -> 1..Len(df)] : \A i, j \in 1..Len(df) : f[i] = f[j] => i = j}

\* C10: every outgoing bucket's net total and VAT total held by the engine is
\* the exact sum of the net and VAT amounts of the sales rows resolved to that
\* bucket, whatever the order of the rows.
C10_AggregationExact ==
    Done =>
        /\ OutgoingBuckets(report) =
              <<NetSum(SalesOf("STANDARD")), NetSum(SalesOf("REDUCED_12")),
                NetSum(SalesOf("REDUCED_6")), NetSum(SalesOf("ZERO")),
                VatSum(SalesOf("STANDARD")), VatSum(SalesOf("REDUCED_12")),
                VatSum(SalesOf("REDUCED_6"))>>
        /\ \A f \in Reorderings :
              OutgoingBuckets(BuildReport([i \in 1..Len(df) |-> df[f[i]]], org_number))
                  = OutgoingBuckets(report)

\* two different sales rows in the 25% bucket
C10_Witness ==
    /\ Done
    /\ Len(df) = 2
    /\ SalesOf("STANDARD") = {1, 2}
    /\ df[1].subAmount # df[2].subAmount
    /\ report.sales_25 = df[1].subAmount + df[2].subAmount

\* every cell of every row of df is filled
AllComplete == \A i \in 1..Len(df) : df[i].missing = {}

PositiveGross(row) == row.amount > 0
NegativeGross(row) == row.amount < 0
NonZeroGross(row) == row.amount # 0

\* C11: a transaction is classified by the sign of its gross amount only: a
\* positive gross contributes solely to the sales totals, a negative gross
\* solely to the purchase totals, and a gross of exactly 0 contributes to no
\* total and produces no finding, whatever its net and VAT amounts are.
C11_ClassifiedBySign ==
    Done =>
        LET sold == process_transactions(SelectSeq(df, PositiveGross), org_number)
            bought == process_transactions(SelectSeq(df, NegativeGross), org_number)
        IN  /\ returned = process_transactions(SelectSeq(df, NonZeroGross), org_number)
            /\ returned.sales = sold.sales
            /\ returned.validation = sold.validation
            /\ returned.purchases = bought.purchases
            /\ returned.sales.total_net = NetSum({i \in 1..Len(df) : df[i].amount > 0})

C11_Witness ==
    /\ Done
    /\ Len(df) = 2
    /\ df[1].amount = 0 /\ df[1].subAmount # 0 /\ df[1].vat # 0 /\ df[1].missing = {}
    /\ df[2].amount > 0
    /\ returned.sales.total_net = df[2].subAmount

\* the sales rows of df whose declared percent is in R
SalesDeclared(R) == {i \in 1..Len(df) : df[i].amount > 0 /\ df[i].vatRate \in R}

\* df with every declared percent other than 25, 12, 6, 0 replaced by 25
DeclaredAs25 ==
    [i \in 1..Len(df) |->
        IF df[i].vatRate \in {2500, 1200, 600, 0} THEN df[i]
        ELSE [df[i] EXCEPT !.vatRate = 2500]]

\* C12: a declared percent of 25, 12, 6 or 0 is resolved to that bucket, every
\* other declared percent (12.5, 0.25, 20, -6) to the 25% bucket, and no
\* finding is recorded for the unrecognized rate: the report is the one the
\* rows give with 25 declared in its place.
C12_RateResolution ==
    (Done /\ AllComplete) =>
        /\ report.sales_12 = NetSum(SalesDeclared({1200}))
        /\ report.sales_6 = NetSum(SalesDeclared({600}))
        /\ report.sales_0 = NetSum(SalesDeclared({0}))
        /\ report.sales_25 =
              NetSum({i \in 1..Len(df) : df[i].amount > 0 /\ df[i].vatRate \notin {1200, 600, 0}})
        /\ returned = process_transactions(DeclaredAs25, org_number)

\* The warnings the two amount validators owe the sales rows, in row order, as
\* pairs <<row id, message>>: "Momsbelopp" when the VAT is further than the
\* tolerance from net x rate rounded half-up to a hundredth, "Bruttobelopp"
\* when the gross is further than the tolerance from net + VAT.  zeroToo says
\* whether the VAT check covers the rows resolved to 0%.
RECURSIVE OwedWarnings(_, _)
OwedWarnings(rows, zeroToo) ==
    IF rows = <<>> THEN <<>>
    ELSE LET row == Head(rows)
             pct == RateValue(_get_vat_rate(row.vatRate))
             expected == QuantizeHalfUp(row.subAmount * pct, 100)
             vatOff == /\ zeroToo \/ pct # 0
                       /\ Abs(row.vat - expected) > DefaultTolerance
             grossOff == Abs(row.amount - (row.subAmount + row.vat)) > DefaultTolerance
         IN  (IF row.amount > 0 /\ vatOff
              THEN <<<<row.id, "Momsbelopp stammer inte">>>> ELSE <<>>)
             \o (IF row.amount > 0 /\ grossOff
                 THEN <<<<row.id, "Bruttobelopp stammer inte">>>> ELSE <<>>)
             \o OwedWarnings(Tail(rows), zeroToo)

RecordedWarnings ==
    [i \in 1..Len(returned.validation.warnings) |->
        <<returned.validation.warnings[i].field[2],
          returned.validation.warnings[i].message[1]>>]

AllWarnings ==
    \A i \in 1..Len(returned.validation.warnings) :
        returned.validation.warnings[i].severity = "warning"

SalesAccumulated ==
    OutgoingBuckets(report) =
        <<NetSum(SalesOf("STANDARD")), NetSum(SalesOf("REDUCED_12")),
          NetSum(SalesOf("REDUCED_6")), NetSum(SalesOf("ZERO")),
          VatSum(SalesOf("STANDARD")), VatSum(SalesOf("REDUCED_12")),
          VatSum(SalesOf("REDUCED_6"))>>

\* C13 as stated: for every sales transaction, in every rate bucket including
\* 0%, a warning is recorded when the VAT differs from net x rate by more than
\* the tolerance and a warning when the gross differs from net + VAT by more
\* than the tolerance; the transaction is accumulated in all cases.
C13_BothValidatorsEveryBucket ==
    Done =>
        /\ RecordedWarnings = OwedWarnings(df, TRUE)
        /\ AllWarnings
        /\ SalesAccumulated

\* C13 amended: for every sales transaction a warning is recorded when the
\* gross differs from net + VAT by more than the tolerance, and, unless the
\* transaction resolves to the 0% bucket, a warning when the VAT differs from
\* net x rate by more than the tolerance; the transaction is accumulated in
\* all cases (in the 0% bucket the net only).
C13_AmountValidators ==
    Done =>
        /\ RecordedWarnings = OwedWarnings(df, FALSE)
        /\ AllWarnings
        /\ SalesAccumulated

\* a 0% row charging VAT passes unwarned next to a row that is warned
C13_Witness ==
    /\ Done
    /\ Len(df) = 2
    /\ df[1].amount > 0 /\ _get_vat_rate(df[1].vatRate) = "ZERO"
    /\ df[1].vat > DefaultTolerance
    /\ df[2].amount > 0
    /\ RecordedWarnings = <<<<2, "Momsbelopp stammer inte">>>>
    /\ report.sales_0 = df[1].subAmount

CostsOf(R) ==
    {i \in 1..Len(df) : df[i].amount < 0 /\ _get_vat_rate(df[i].vatRate) \in R}

AllRates == {"STANDARD", "REDUCED_12", "REDUCED_6", "ZERO"}

AbsNetSum(S) == SumIdx([i \in 1..Len(df) |-> Abs(df[i].subAmount)], S)
AbsVatSum(S) == SumIdx([i \in 1..Len(df) |-> Abs(df[i].vat)], S)

\* C14: every cost transaction (gross < 0), whatever its resolved rate, adds
\* |net| to the net-cost bucket of that rate and |VAT| to the incoming VAT, so
\* purchases.total_net is the sum of |net| and incoming_vat the sum of |VAT|
\* over all cost rows; cost rows produce no finding.
C14_CostRows ==
    (Done /\ AllComplete) =>
        /\ returned.purchases.vat_25_percent.net = AbsNetSum(CostsOf({"STANDARD"}))
        /\ returned.purchases.vat_12_percent.net = AbsNetSum(CostsOf({"REDUCED_12"}))
        /\ returned.purchases.vat_0_percent.net = AbsNetSum(CostsOf({"ZERO"}))
        /\ returned.purchases.total_net = AbsNetSum(CostsOf(AllRates))
        /\ returned.purchases.incoming_vat = AbsVatSum(CostsOf(AllRates))
        /\ returned.validation =
              process_transactions(SelectSeq(df, PositiveGross), org_number).validation

\* C15: total outgoing VAT is the sum of the three outgoing VAT buckets, net
\* VAT is total outgoing minus incoming VAT, to_pay is net VAT when it is
\* positive and 0 otherwise, to_refund is |net VAT| when it is negative and 0
\* otherwise; so the two are never both non-zero and to_pay - to_refund is
\* net VAT.
C15_VatSummary ==
    Done =>
        LET s == returned.vat_summary
        IN  /\ s.outgoing_vat = returned.sales.vat_25_percent.vat
                                + returned.sales.vat_12_percent.vat
                                + returned.sales.vat_6_percent.vat
            /\ returned.sales.total_outgoing_vat = s.outgoing_vat
            /\ s.incoming_vat = returned.purchases.incoming_vat
            /\ s.net_vat = s.outgoing_vat - s.incoming_vat
            /\ s.to_pay = (IF s.net_vat > 0 THEN s.net_vat ELSE 0)
            /\ s.to_refund = (IF s.net_vat < 0 THEN 0 - s.net_vat ELSE 0)
            /\ s.to_pay = 0 \/ s.to_refund = 0
            /\ s.to_pay - s.to_refund = s.net_vat

C15_Witness ==
    /\ Done
    /\ returned.vat_summary.outgoing_vat > 0
    /\ returned.vat_summary.net_vat < 0
    /\ returned.vat_summary.to_refund > 0

LacksField(row) == row.missing # {}

Findings == returned.validation.errors \o returned.validation.warnings

\* C16: a row that lacks a required field is a validation failure for that row
\* only: processing does not abort, the failure is recorded as a finding of
\* that row, and the remaining rows are aggregated as they are without it.
C16_MissingFieldCollected ==
    (pc # "ready" /\ \E i \in 1..Len(df) : LacksField(df[i])) =>
        /\ pc = "done"
        /\ \A i \in 1..Len(df) :
              LacksField(df[i]) =>
                 \E k \in 1..Len(Findings) : Findings[k].field = <<"transaction_", df[i].id>>
        /\ LET rest == [i \in 1..Len(df) |->
                          IF LacksField(df[i]) THEN [df[i] EXCEPT !.amount = 0] ELSE df[i]]
               others == process_transactions(rest, org_number)
           IN  /\ returned.sales = others.sales
               /\ returned.purchases = others.purchases

OnlyZeroRows == \A i \in 1..Len(df) : df[i].amount = 0 /\ df[i].missing = {}

JournalAccounts == <<"3010", "3011", "2611", "6590", "2641">>

\* the bucket total an account's entry carries
BucketTotal(acct) ==
    CASE acct = "3010" -> returned.sales.vat_25_percent.net
      [] acct = "3011" -> returned.sales.vat_0_percent.net
      [] acct = "2611" -> returned.sales.vat_25_percent.vat
      [] acct = "6590" -> returned.purchases.total_net
      [] acct = "2641" -> returned.purchases.incoming_vat

Position(acct) == CHOOSE k \in 1..Len(JournalAccounts) : JournalAccounts[k] = acct

\* The entries are of the five accounts, at most one each, in the fixed
\* order; an entry is there exactly when Present holds of its account; sales
\* and outgoing-VAT entries are credits of the bucket total, cost and
\* incoming-VAT entries debits of it.
JournalShape(Present(_)) ==
    LET je == returned.journal_entries
    IN  /\ \A k \in 1..Len(je) : \E a \in 1..Len(JournalAccounts) : je[k].account = JournalAccounts[a]
        /\ \A k \in 1..Len(je) : \A m \in 1..Len(je) :
              k < m => Position(je[k].account) < Position(je[m].account)
        /\ \A a \in 1..Len(JournalAccounts) :
              (\E k \in 1..Len(je) : je[k].account = JournalAccounts[a])
                 <=> Present(JournalAccounts[a])
        /\ \A k \in 1..Len(je) :
              IF je[k].account \in {"3010", "3011", "2611"}
              THEN je[k].debit = 0 /\ je[k].credit = BucketTotal(je[k].account)
              ELSE je[k].credit = 0 /\ je[k].debit = BucketTotal(je[k].account)

NonZeroBucket(acct) == BucketTotal(acct) # 0
PositiveBucket(acct) == BucketTotal(acct) > 0

\* C18 as stated: the journal entries are at most one for each of 3010, 3011,
\* 2611, 6590 and 2641, in that order; an entry is present exactly when its
\* bucket total is non-zero; revenue and VAT-liability entries carry debit 0
\* and the bucket total as credit, cost and VAT-receivable entries credit 0
\* and the bucket total as debit.
C18_EntryPerNonZeroBucket == Done => JournalShape(NonZeroBucket)

\* C18 amended: the same, with an entry present exactly when its bucket total
\* is greater than zero.
C18_EntryPerPositiveBucket == Done => JournalShape(PositiveBucket)

\* a negative sales bucket has no entry while other buckets have theirs
C18_Witness ==
    /\ Done
    /\ BucketTotal("3010") < 0
    /\ Len(returned.journal_entries) = 2
    /\ returned.journal_entries[1].account = "6590"
    /\ returned.journal_entries[2].account = "2641"

RECURSIVE OfSeverity(_, _)
OfSeverity(findings, severity) ==
    IF findings = <<>> THEN <<>>
    ELSE (IF Head(findings).severity = severity THEN <<Head(findings)>> ELSE <<>>)
         \o OfSeverity(Tail(findings), severity)

\* C19: every recorded finding is in exactly one of validation.errors
\* (severity error) and validation.warnings (severity warning), in the order
\* it was recorded; validation.is_valid is true exactly when validation.errors
\* is empty, so warnings alone never make a report invalid.
C19_FindingsSplit ==
    Done =>
        /\ \A k \in 1..Len(report.validations) :
              report.validations[k].severity \in {"error", "warning"}
        /\ returned.validation.errors = OfSeverity(report.validations, "error")
        /\ returned.validation.warnings = OfSeverity(report.validations, "warning")
        /\ returned.validation.is_valid <=> returned.validation.errors = <<>>

C19_Witness ==
    /\ Done
    /\ Len(returned.validation.warnings) = 2
    /\ returned.validation.errors = <<>>
    /\ returned.validation.is_valid
    /\ org_number # <<>>

\* net x rate / 100 to the nearest hundredth, a tie away from zero; x is
\* net x rate, in hundredths of a hundredth
NearestHundredth(x) ==
    CHOOSE e \in ((x \div 100) - 1)..((x \div 100) + 1) :
        /\ 2 * Abs(100 * e - x) <= 100
        /\ 2 * Abs(100 * e - x) = 100 => Abs(100 * e) > Abs(x)

WithinTolerance ==
    Abs(value.vat - NearestHundredth(value.subAmount * RateValue(value.rate)))
        <= value.tolerance

\* C20: validate_vat_calculation accepts (net, vat, rate) exactly when
\* |vat - E| <= tolerance, E being net x rate/100 rounded half-up to two
\* decimal places, in validators.py as in vat_processor.py, so with the same
\* tolerance the two accept the same triples.
C20_VatCalculationRule ==
    /\ called = "vat_calculation" => (vresult.is_valid <=> WithinTolerance)
    /\ called = "vp_vat_calculation" => (vresult[1] <=> WithinTolerance)

DigitPositions(s) == {i \in 1..Len(s) : s[i] \in AsciiDigits}

\* C26: single-digit error detection: replacing any one digit of a string
\* validate_org_number accepts by a different digit gives a string that
\* validate_org_number rejects.
C26_SingleDigitDetected ==
    (called = "org_number" /\ vresult.is_valid) =>
        \A i \in DigitPositions(value) :
            \A d \in AsciiDigits \ {value[i]} :
                ~validate_org_number(Subst(value, i, d)).is_valid

C26_Witness ==
    /\ called = "org_number"
    /\ vresult.is_valid
    /\ Len(value) = 11 /\ value[7] = "-"
    /\ value[3] = "0"

\* C27: is_valid is false exactly when a non-empty organisation number was
\* supplied and failed validation: every error-severity finding is the
\* org_number one, no vat_balance finding is ever produced, and the
\* transactions do not change is_valid.
C27_OnlyOrgNumberInvalidates ==
    Done =>
        /\ ~returned.validation.is_valid <=> OrgNumberFails
        /\ \A k \in 1..Len(returned.validation.errors) :
              returned.validation.errors[k].field = <<"org_number">>
        /\ Len(returned.validation.errors) <= 1
        /\ \A k \in 1..Len(report.validations) :
              report.validations[k].field # <<"vat_balance">>
        /\ returned.validation.is_valid =
              process_transactions(<<>>, org_number).validation.is_valid

C27_Witness ==
    /\ Done
    /\ ~returned.validation.is_valid
    /\ Len(returned.validation.errors) = 1
    /\ Len(returned.validation.warnings) = 2
    /\ returned.vat_summary.net_vat < 0

\* C28: the journal entries account for everything aggregated: their credits
\* sum to the net sales of the four rate buckets plus the total outgoing VAT,
\* their debits to the net purchases plus the incoming VAT.
C28_JournalCoversBuckets ==
    (Done /\ AllComplete) =>
        /\ TotalCredit(returned.journal_entries) =
              returned.sales.total_net + returned.sales.total_outgoing_vat
        /\ TotalDebit(returned.journal_entries) =
              returned.purchases.total_net + returned.purchases.incoming_vat

(***************************************************************************)
(* Properties of the SIE export                                            *)
(***************************************************************************)
Out == content[1]

\* the first field of a line, "" for a blank line
Tag(line) == IF Len(line) = 0 THEN "" ELSE line[1]

LinesTagged(tags) == {i \in 1..Len(Out) : Tag(Out[i]) \in tags}

\* the elements of a set of line numbers, ascending
RECURSIVE Ascending(_)
Ascending(S) ==
    IF S = {} THEN <<>>
    ELSE LET m == CHOOSE x \in S : \A y \in S : x <= y
         IN  <<m>> \o Ascending(S \ {m})

\* the number a decimal literal denotes, in hundredths
ParseAmount(str) ==
    LET neg == str # <<>> /\ Head(str) = "-"
        body == IF neg THEN Tail(str) ELSE str
        dots == {i \in 1..Len(body) : body[i] = "."}
        p == CHOOSE i \in dots : TRUE
        fr == SubSeq(body, p + 1, Len(body))
        magnitude ==
            IF dots = {} THEN 100 * IntOf(body)
            ELSE 100 * IntOf(SubSeq(body, 1, p - 1))
                 + (IF Len(fr) = 1 THEN 10 * IntOf(fr) ELSE IntOf(fr))
    IN  IF neg THEN 0 - magnitude ELSE magnitude

CallsOf(op) == {i \in 1..Len(history) : history[i].op = op}

VerificationsAdded ==
    LET at == Ascending(CallsOf("add_verification"))
    IN  [k \in 1..Len(at) |-> history[at[k]].arg]

\* the postings whose debit - credit is not zero, as <<account, debit - credit>>
RECURSIVE NonZeroPostings(_)
NonZeroPostings(postings) ==
    IF postings = <<>> THEN <<>>
    ELSE (IF Head(postings).debit.h # Head(postings).credit.h
          THEN <<<<Head(postings).account,
                   Head(postings).debit.h - Head(postings).credit.h>>>>
          ELSE <<>>)
         \o NonZeroPostings(Tail(postings))

\* the lines between the "{" after line i and the next "}"
BlockOf(i) ==
    LET close == CHOOSE j \in (i + 1)..Len(Out) :
                    /\ Tag(Out[j]) = "}"
                    /\ \A k \in (i + 1)..(j - 1) : Tag(Out[k]) # "}"
    IN  SubSeq(Out, i + 2, close - 1)

\* C21: for every verification added, export emits one #VER block holding, in
\* posting order, exactly one #TRANS line for each posting whose signed amount
\* debit - credit is not zero, with that account and that amount, and none
\* for a posting whose signed amount is zero.
C21_TransPerNonZeroPosting ==
    content # <<>> =>
        LET vers == Ascending(LinesTagged({"#VER"}))
        IN  /\ Len(vers) = Len(VerificationsAdded)
            /\ \A k \in 1..Len(vers) :
                  LET block == BlockOf(vers[k])
                      wanted == NonZeroPostings(VerificationsAdded[k].transactions)
                  IN  /\ Tag(Out[vers[k] + 1]) = "{"
                      /\ Len(block) = Len(wanted)
                      /\ \A n \in 1..Len(block) :
                            /\ Tag(block[n]) = "#TRANS"
                            /\ block[n][2] = wanted[n][1]
                            /\ ParseAmount(block[n][4]) = wanted[n][2]

C21_Witness ==
    /\ content # <<>>
    /\ Len(VerificationsAdded) = 2
    /\ VerificationsAdded[1].number = 3
    /\ VerificationsAdded[2].number = 1
    /\ Cardinality(LinesTagged({"#TRANS"})) = 4

HeaderTags ==
    <<"#FLAGGA", "#FORMAT", "#SIETYP", "#PROGRAM", "#GEN", "#FNAMN", "#ORGNR",
      "#RAR", "#KPTYP">>

Repeat(x, n) == [i \in 1..n |-> x]

AccountsOf(op) == {history[i].account : i \in CallsOf(op)}

\* what the last call of op on the account handed over
LastArg(op, account) ==
    LET at == {i \in CallsOf(op) : history[i].account = account}
        last == CHOOSE i \in at : \A j \in at : j <= i
    IN  history[last].arg

IsAsciiDigit(c) == c \in AsciiDigits

\* C22: export emits the header lines, then the #KONTO lines, then the #IB
\* lines, then the #VER blocks; one #KONTO line per distinct account code, in
\* ascending code order, with the name of the last add_account; #IB lines only
\* if a balance was set, one per account in ascending code order with the
\* last value set; #VER blocks in the order added; #ORGNR with the digits of
\* the organisation number.
C22_SectionOrder ==
    content # <<>> =>
        LET directives == Ascending(LinesTagged({HeaderTags[i] : i \in 1..Len(HeaderTags)}
                                                \cup {"#KONTO", "#IB", "#VER"}))
            konto == Ascending(LinesTagged({"#KONTO"}))
            ib == Ascending(LinesTagged({"#IB"}))
            vers == Ascending(LinesTagged({"#VER"}))
            org == Out[CHOOSE i \in LinesTagged({"#ORGNR"}) : TRUE]
        IN  /\ [i \in 1..Len(directives) |-> Tag(Out[directives[i]])] =
                  HeaderTags
                  \o Repeat("#KONTO", Cardinality(AccountsOf("add_account")))
                  \o Repeat("#IB", Cardinality(AccountsOf("set_opening_balance")))
                  \o Repeat("#VER", Len(VerificationsAdded))
            /\ {Out[konto[i]][2] : i \in 1..Len(konto)} = AccountsOf("add_account")
            /\ \A i \in 1..Len(konto) :
                  /\ Out[konto[i]][3] = LastArg("add_account", Out[konto[i]][2])
                  /\ \A j \in 1..Len(konto) :
                        i < j => IntOf(Out[konto[i]][2]) < IntOf(Out[konto[j]][2])
            /\ {Out[ib[i]][3] : i \in 1..Len(ib)} = AccountsOf("set_opening_balance")
            /\ \A i \in 1..Len(ib) :
                  /\ ParseAmount(Out[ib[i]][4]) =
                        LastArg("set_opening_balance", Out[ib[i]][3]).h
                  /\ \A j \in 1..Len(ib) :
                        i < j => IntOf(Out[ib[i]][3]) < IntOf(Out[ib[j]][3])
            /\ \A k \in 1..Len(vers) :
                  /\ Out[vers[k]][3] = VerificationsAdded[k].number
                  /\ Out[vers[k]][4] = VerificationsAdded[k].date
            /\ org[2] = SelectSeq(history[1].arg, IsAsciiDigit)

\* two accounts added in descending order, one of them renamed
C22_Witness ==
    /\ content # <<>>
    /\ Len(history) = 4
    /\ history[2].op = "add_account" /\ history[2].account = Code("3", "0", "1", "0")
    /\ history[3].op = "add_account" /\ history[3].account = Code("1", "5", "1", "0")
    /\ history[4].op = "add_account" /\ history[4].account = Code("3", "0", "1", "0")
    /\ history[4].arg # history[2].arg
    /\ Cardinality(LinesTagged({"#KONTO"})) = 2

\* C23: serializing the same VAT report twice with create_sie_from_vat_report,
\* at any two points in time, gives contents that are identical on every line
\* except the #GEN line.
C23_IdenticalExceptGen ==
    Len(content) = 2 =>
        /\ Len(content[1]) = Len(content[2])
        /\ \A i \in 1..Len(content[1]) :
              content[1][i] # content[2][i] => Tag(content[1][i]) = "#GEN"

\* the parsed allowed-origins list is unsafe for production
UnsafeOrigins ==
    LET origins == allowed_origins_list(value)
    IN  \E i \in 1..Len(origins) : origins[i] = <<"*">> \/ MentionsLocalhost(origins[i])

\* C25: with ENV "production", validate_production_config raises, and startup
\* fails, whenever DEBUG is true or the parsed allowed-origins list holds the
\* wildcard "*" or an origin mentioning localhost or 127.0.0.1; with any other
\* ENV it never raises.
C25_ProductionConfig ==
    called \in {"validate_production_config", "lifespan"} =>
        /\ (value.ENV = "production" /\ (value.DEBUG \/ UnsafeOrigins)) => vresult.raised
        /\ value.ENV # "production" => ~vresult.raised
        /\ called = "lifespan" => (vresult.started <=> ~vresult.raised)

ReturnsAsAlone ==
    \A p \in Invocations :
        calls.inv[p].pc = "done" =>
            calls.inv[p].returned =
                process_transactions(calls.inv[p].df, calls.inv[p].org_number)

InputsUntouched ==
    /\ calls'.instances = calls.instances
    /\ \A p \in Invocations :
          /\ calls'.inv[p].df = calls.inv[p].df
          /\ calls'.inv[p].org_number = calls.inv[p].org_number

\* C24: the engine is stateless across invocations: in every interleaving of
\* several process_transactions invocations, on one VATProcessor or on
\* several, each invocation returns the report it returns when run alone on
\* its input, and no step modifies an input transaction list or the
\* processor objects.
C24_Stateless == [](ReturnsAsAlone) /\ [][InputsUntouched]_vars

\* two invocations on one processor, both inside their loops
C24_Witness ==
    /\ calls # <<>>
    /\ calls.inv[1].self = calls.inv[2].self
    /\ calls.inv[1].pc = "loops" /\ calls.inv[2].pc = "loops"
    /\ Len(calls.inv[1].df) = 2 /\ calls.inv[1].income = <<>> /\ Len(calls.inv[1].costs) = 1
    /\ Len(calls.inv[2].df) = 2 /\ Len(calls.inv[2].income) = 1
    /\ calls.inv[1].df # calls.inv[2].df
    /\ calls.inv[2].st.report.sales_25 > 0

Answered == called \in {"/analyze", "/calculate-normalized"}

\* the DataFrame the endpoint hands to the engine
RequestRows ==
    IF value.endpoint = "/analyze" THEN value.file.rows
    ELSE NormalizedFrame(value.transactions)

\* C29: in the front-end report, vat.outgoing_25, vat.outgoing_12 and
\* vat.outgoing_6 are the outgoing VAT of the 25%, 12% and 6% sales buckets
\* (the vat of the sales[] line of that rate when there is one), and
\* outgoing_25 + outgoing_12 + outgoing_6 - incoming = net.
C29_OutgoingPerRate ==
    (Answered /\ vresult.status_code = 200) =>
        LET rep == process_transactions(RequestRows, value.org_number)
            data == vresult.data
        IN  /\ data.vat.outgoing_25 = rep.sales.vat_25_percent.vat
            /\ data.vat.outgoing_12 = rep.sales.vat_12_percent.vat
            /\ data.vat.outgoing_6 = rep.sales.vat_6_percent.vat
            /\ \A i \in 1..Len(data.sales) :
                  /\ data.sales[i].rate = 2500 => data.vat.outgoing_25 = data.sales[i].vat
                  /\ data.sales[i].rate = 1200 => data.vat.outgoing_12 = data.sales[i].vat
                  /\ data.sales[i].rate = 600 => data.vat.outgoing_6 = data.sales[i].vat
            /\ data.vat.outgoing_25 + data.vat.outgoing_12 + data.vat.outgoing_6
                  - data.vat.incoming = data.vat.net

Authenticated == value.expected_key = "" \/ value.api_key = value.expected_key

\* the request is not empty, parses, has the columns and no empty cell
WellFormed ==
    /\ RequestRows # <<>>
    /\ value.endpoint = "/analyze" =>
          value.file.parses /\ REQUIRED_COLUMNS \subseteq value.file.columns
    /\ ~Raises(RequestRows)

\* C30: findings are surfaced, not turned into a fault: an authenticated,
\* non-empty, well-formed request to /analyze or /calculate-normalized is
\* answered 200 with the report, validation.is_valid, errors and warnings as
\* the engine produced them, also when the report carries warnings or the
\* invalid-organisation-number error; a 4xx/5xx answer occurs only for
\* unparseable or empty input or an authentication failure.
C30_FindingsSurfaced ==
    Answered =>
        /\ (Authenticated /\ WellFormed) =>
              /\ vresult.status_code = 200
              /\ vresult.data.validation =
                    process_transactions(RequestRows, value.org_number).validation
        /\ vresult.status_code >= 400 => (~Authenticated \/ ~WellFormed)

====
